---- MODULE Spec2Model ----
(***************************************************************************)
(* The C API layer of the denoising runtime (src/core/api.cpp) as a state  *)
(* machine: application threads call entry points on device, buffer and    *)
(* filter handles; every entry point is the macro skeleton                 *)
(*   OIDN_TRY  checkHandle; OIDN_LOCK; operation  OIDN_CATCH               *)
(* and is modelled step by step (handle check, lock acquisition, body and  *)
(* scope exit, catch handler, return).  The image descriptor arithmetic of *)
(* src/core/image.cpp is modelled by operators.                            *)
(***************************************************************************)
EXTENDS Integers, Sequences, FiniteSets, TLC

(***************************************************************************)
(* Bounds of the model.                                                    *)
(***************************************************************************)
MaxPending == 3
MaxCalls == 1
MaxWorkerCalls == 1
MaxApiCalls == 2
MaxSessionCalls == 3
MaxAsyncCalls == 4
MaxSyclCalls == 2

\* Two application threads, two device slots, two buffer or filter slots.
Threads == {1, 2}
Devices == {1, 2}
Objects == {1, 2}
\* The null handle (nullptr) and, as an error channel, "no device".
Null == 0

(***************************************************************************)
(* Error codes and failures.                                               *)
(***************************************************************************)
ErrorCodes ==
  {"None", "Unknown", "InvalidArgument", "InvalidOperation", "OutOfMemory",
   "UnsupportedHardware", "Cancelled"}

\* A thrown object: its C++ type, and for oidn::Exception its code.
Throw(type, code, msg) == [type |-> type, code |-> code, msg |-> msg]
NoExc == Throw("none", "None", "")
Exception(code, msg) == Throw("Exception", code, msg)

InvalidHandle == Exception("InvalidArgument", "invalid handle")

\* A handle check that reports the wrong kind of error.
checkHandleInvalidOperation(handle) ==
  IF handle = Null THEN Exception("InvalidOperation", "invalid handle")
  ELSE NoExc

\* checkHandle: a null handle throws Exception(InvalidArgument).
checkHandle(handle) == IF handle = Null THEN InvalidHandle ELSE NoExc

\* Failures the engine, the mutex or the allocator can raise inside a body.
BadAlloc == Throw("std::bad_alloc", "None", "std::bad_alloc")
DnnlOutOfMemory == Throw("dnnl::error/out_of_memory", "None", "could not allocate")
DnnlError == Throw("dnnl::error", "None", "dnnl failure")
StdException == Throw("std::exception", "None", "engine failure")
UnknownThrow == Throw("unknown", "None", "")
UnsupportedHardware == Exception("UnsupportedHardware", "unsupported hardware")
\* What oidnExecuteSYCLFilterAsync throws for several completion events (a
\* std::exception).
LogicError ==
  Throw("std::logic_error", "None", "missing barrier after filter kernels")
\* What std::mutex::lock throws when it fails (a std::exception).
SystemError == Throw("std::system_error", "None", "mutex lock failed")
Faults ==
  {BadAlloc, DnnlOutOfMemory, DnnlError, StdException, UnknownThrow,
   UnsupportedHardware}

\* A mis-ordered handler list: std::exception is tried before dnnl::error
\* and std::bad_alloc, which both derive from it.
CatchCodeStdFirst(e) ==
  IF e.type = "Exception" THEN e.code ELSE "Unknown"

\* OIDN_CATCH / OIDN_CATCH_DNNL: the error code passed to Device::setError.
CatchCode(e) ==
  CASE e.type = "Exception" -> e.code
    [] e.type = "std::bad_alloc" -> "OutOfMemory"
    [] e.type = "dnnl::error/out_of_memory" -> "OutOfMemory"
    [] e.type = "dnnl::error" -> "Unknown"
    [] e.type \in {"std::exception", "std::system_error", "std::logic_error"}
         -> "Unknown"
    [] OTHER -> "Unknown"

\* OIDN_CATCH / OIDN_CATCH_DNNL: the message passed to Device::setError.
CatchMessage(e) ==
  CASE e.type = "Exception" -> e.msg
    [] e.type = "std::bad_alloc" -> "out of memory"
    [] e.type = "dnnl::error/out_of_memory" -> "out of memory"
    [] e.type = "dnnl::error" -> e.msg
    [] e.type \in {"std::exception", "std::system_error", "std::logic_error"}
         -> e.msg
    [] OTHER -> "unknown exception caught"

(***************************************************************************)
(* Entry points of the C API, by the handle they take and their result.    *)
(***************************************************************************)
DeviceAccessors ==
  {"oidnSetDevice1b", "oidnSetDevice1i", "oidnGetDevice1b", "oidnGetDevice1i"}
NewBufferCalls ==
  {"oidnNewBuffer", "oidnNewBufferWithStorage", "oidnNewSharedBuffer",
   "oidnNewSharedBufferFromFD", "oidnNewSharedBufferFromWin32Handle"}
NewChildCalls == NewBufferCalls \cup {"oidnNewFilter"}
BufferAccessors ==
  {"oidnMapBuffer", "oidnUnmapBuffer", "oidnGetBufferData", "oidnGetBufferSize"}
BufferSyncCalls == {"oidnReadBuffer", "oidnWriteBuffer"}
BufferAsyncCalls == {"oidnReadBufferAsync", "oidnWriteBufferAsync"}
FilterAccessors ==
  {"oidnSetSharedFilterData", "oidnUpdateFilterData",
   "oidnRemoveFilterData", "oidnSetFilter1b", "oidnGetFilter1b",
   "oidnSetFilter1i", "oidnGetFilter1i", "oidnSetFilter1f", "oidnGetFilter1f",
   "oidnCommitFilter"}
SetImageCalls == {"oidnSetFilterImage", "oidnSetSharedFilterImage"}
\* Device constructors over native streams.
StreamDeviceCalls == {"oidnNewCUDADevice", "oidnNewHIPDevice"}
\* Entry points of builds with the SYCL device.
SyclCalls == {"oidnNewSYCLDevice", "oidnExecuteSYCLFilterAsync"}
ExecuteCalls == {"oidnExecuteFilter", "oidnExecuteFilterAsync"}

\* Entry points of the shape  checkHandle; OIDN_LOCK; operation.
LockedDeviceCalls ==
  DeviceAccessors \cup NewChildCalls
    \cup {"oidnSetDeviceErrorFunction", "oidnCommitDevice", "oidnSyncDevice"}
LockedBufferCalls == BufferAccessors \cup BufferSyncCalls \cup BufferAsyncCalls
LockedFilterCalls ==
  FilterAccessors \cup SetImageCalls \cup ExecuteCalls
    \cup {"oidnRemoveFilterImage", "oidnSetFilterProgressMonitorFunction"}
LockedCalls == LockedDeviceCalls \cup LockedBufferCalls \cup LockedFilterCalls

RetainCalls == {"oidnRetainDevice", "oidnRetainBuffer", "oidnRetainFilter"}
ReleaseCalls == {"oidnReleaseDevice", "oidnReleaseBuffer", "oidnReleaseFilter"}

\* Entry points that take a device, buffer or filter handle.
HandleCalls ==
  LockedCalls \cup RetainCalls \cup ReleaseCalls \cup {"oidnGetDeviceError"}

\* The type of the handle an entry point takes.
HandleKind(ep) ==
  CASE ep \in LockedDeviceCalls
         \cup {"oidnRetainDevice", "oidnReleaseDevice", "oidnGetDeviceError"}
         -> "device"
    [] ep \in LockedBufferCalls \cup {"oidnRetainBuffer", "oidnReleaseBuffer"}
         -> "buffer"
    [] ep \in LockedFilterCalls
         \cup {"oidnRetainFilter", "oidnReleaseFilter",
               "oidnExecuteSYCLFilterAsync"}
         -> "filter"
    [] OTHER -> "none"

\* The C type of an entry point's result.
ResultType(ep) ==
  CASE ep \in NewChildCalls \cup StreamDeviceCalls
         \cup {"oidnNewDevice", "oidnNewSYCLDevice"}
         -> "handle"
    [] ep \in {"oidnMapBuffer", "oidnGetBufferData"} -> "pointer"
    [] ep \in {"oidnGetDevice1b", "oidnGetFilter1b"} -> "bool"
    [] ep \in {"oidnGetDevice1i", "oidnGetFilter1i"} -> "int"
    [] ep = "oidnGetBufferSize" -> "size_t"
    [] ep = "oidnGetFilter1f" -> "float"
    [] ep = "oidnGetDeviceError" -> "OIDNError"
    [] OTHER -> "void"

\* The value an entry point returns after its catch handler has run.
Sentinel(ep) ==
  CASE ResultType(ep) \in {"handle", "pointer"} -> "null"
    [] ResultType(ep) = "bool" -> "false"
    [] ResultType(ep) \in {"int", "size_t", "float"} -> "0"
    [] ResultType(ep) = "OIDNError" -> "Unknown"
    [] OTHER -> "void"

\* The value an entry point returns when its operation completes.
Success(ep) ==
  CASE ResultType(ep) = "handle" -> "handle"
    [] ResultType(ep) = "void" -> "void"
    [] OTHER -> "value"

(***************************************************************************)
(* Image descriptors (src/core/image.cpp).  The integer widths are scaled  *)
(* down: size_t has SizeBits bits and int has IntBits bits; size_t         *)
(* arithmetic wraps modulo 2^SizeBits.  maxDim keeps its value (maxDim *   *)
(* maxDim exceeds the largest int, as 65536 * 65536 exceeds INT32_MAX).    *)
(***************************************************************************)
SizeBits == 28
IntBits == 24
maxDim == 65536
BufferBytes == 16

SizeMod == 2 ^ SizeBits
IntMod == 2 ^ IntBits
IntMax == (IntMod \div 2) - 1

\* (int)x for a size_t x, and the int handed back to a size_t parameter.
IntCast(x) ==
  LET r == x % IntMod IN IF r > IntMax THEN r - IntMod ELSE r
ToSize(i) == i % SizeMod

Formats ==
  {"Undefined", "Float", "Float2", "Float3", "Float4",
   "Half", "Half2", "Half3", "Half4"}

\* Number of channels of a format.
getC(format) ==
  CASE format \in {"Float", "Half"} -> 1
    [] format \in {"Float2", "Half2"} -> 2
    [] format \in {"Float3", "Half3"} -> 3
    [] format \in {"Float4", "Half4"} -> 4
    [] OTHER -> 0

\* Size in bytes of one pixel of a format.
getFormatSize(format) ==
  CASE format \in {"Float", "Float2", "Float3", "Float4"} -> 4 * getC(format)
    [] format \in {"Half", "Half2", "Half3", "Half4"} -> 2 * getC(format)
    [] OTHER -> 0

InvalidImage(msg) ==
  [exc |-> Exception("InvalidArgument", msg), format |-> "Undefined",
   width |-> 0, height |-> 0, wByteStride |-> 0, hByteStride |-> 0]

\* A descriptor constructor that accepts any explicit pixel stride.
ImageDescAnyPixelStride(format, width, height, pixelByteStride, rowByteStride) ==
  LET wByteStride ==
        IF pixelByteStride # 0 THEN pixelByteStride ELSE getFormatSize(format)
      hByteStride ==
        IF rowByteStride # 0 THEN rowByteStride
        ELSE (width * wByteStride) % SizeMod
  IN  IF \/ width > maxDim
         \/ height > maxDim
         \/ (width * height * getC(format)) % SizeMod > IntMax
      THEN InvalidImage("image size too large")
      ELSE IF rowByteStride # 0
                /\ rowByteStride < (width * wByteStride) % SizeMod
      THEN InvalidImage("row stride smaller than width * pixel stride")
      ELSE [exc |-> NoExc, format |-> format, width |-> width,
            height |-> height, wByteStride |-> wByteStride,
            hByteStride |-> hByteStride]

\* ImageDesc::ImageDesc: the descriptor, or the Exception it throws (exc).
ImageDesc(format, width, height, pixelByteStride, rowByteStride) ==
  LET pixelByteSize == getFormatSize(format)
      wByteStride ==
        IF pixelByteStride # 0 THEN pixelByteStride ELSE pixelByteSize
      hByteStride ==
        IF rowByteStride # 0 THEN rowByteStride
        ELSE (width * wByteStride) % SizeMod
  IN  IF \/ width > maxDim
         \/ height > maxDim
         \/ (width * height * getC(format)) % SizeMod > IntMax
      THEN InvalidImage("image size too large")
      ELSE IF pixelByteStride # 0 /\ pixelByteStride < pixelByteSize
      THEN InvalidImage("pixel stride smaller than pixel size")
      ELSE IF rowByteStride # 0
                /\ rowByteStride < (width * wByteStride) % SizeMod
      THEN InvalidImage("row stride smaller than width * pixel stride")
      ELSE [exc |-> NoExc, format |-> format, width |-> width,
            height |-> height, wByteStride |-> wByteStride,
            hByteStride |-> hByteStride]

\* ImageDesc::getByteSize.
getByteSize(desc) == (desc.height * desc.hByteStride) % SizeMod

\* Image::Image(const Ref<Buffer>&, Format, ...): the image over a buffer of
\* bufferByteSize bytes, or the Exception the construction throws.
BufferImage(bufferByteSize, format, width, height, byteOffset, pixelByteStride, rowByteStride) ==
  LET desc == ImageDesc(format, width, height, pixelByteStride, rowByteStride)
  IN  IF desc.exc # NoExc THEN desc
      ELSE IF (byteOffset + getByteSize(desc)) % SizeMod > bufferByteSize
      THEN InvalidImage("buffer region out of range")
      ELSE desc

\* Image::Image(void*, Format, ...): the image over a raw pointer.
PointerImage(ptrIsNull, format, width, height, byteOffset, pixelByteStride, rowByteStride) ==
  LET desc == ImageDesc(format, width, height, pixelByteStride, rowByteStride)
  IN  IF desc.exc # NoExc THEN desc
      ELSE IF ptrIsNull /\ (byteOffset + getByteSize(desc)) % SizeMod > 0
      THEN InvalidImage("buffer region out of range")
      ELSE desc

\* Image arguments the application passes to the set-image entry points.
ImageArgs(format, width, height, byteOffset, pixelByteStride, rowByteStride) ==
  [format |-> format, width |-> width, height |-> height,
   byteOffset |-> byteOffset, pixelByteStride |-> pixelByteStride,
   rowByteStride |-> rowByteStride]
NoArgs == ImageArgs("Undefined", 0, 0, 0, 0, 0)
Geometries ==
  {ImageArgs("Float", 2, 2, 0, 0, 0),
   ImageArgs("Float", 2, 2, BufferBytes, 0, 0),
   ImageArgs("Float3", maxDim + 1, 1, 0, 0, 0),
   ImageArgs("Float", IntMod + 2, 2, 0, 0, 0)}

(***************************************************************************)
(* State.                                                                  *)
(*   dev     the devices: lifetime, commit flag, reference count, error    *)
(*           callback, async work pending on the engine; app is the number *)
(*           of references the application holds, torn counts teardowns    *)
(*   obj     the buffers and filters, each bound to its device             *)
(*   err     the error slot of every device and of "no device" (Null)      *)
(*   mutex   the thread holding each device's mutex, or Null               *)
(*   th      each thread's position inside the entry point it is running;  *)
(*           nset counts its setError calls, slock, ecb and pcb record     *)
(*           whether it held the device's mutex when it accessed the error *)
(*           slot and when the error and progress callbacks were invoked   *)
(*   calls   entry points started by each thread                           *)
(*   lastFail  the failure last recorded on each channel and not yet read  *)
(*   uaf     accesses made to torn-down objects, by kind                   *)
(*   host    the application's destination memory of buffer reads          *)
(*   lab     images constructed directly from descriptors (image.cpp)      *)
(***************************************************************************)
VARIABLES dev, obj, err, mutex, th, calls, lastFail, uaf, host, lab

vars == <<dev, obj, err, mutex, th, calls, lastFail, uaf, host, lab>>

Channels == {Null} \cup Devices

\* Contents of a buffer or of host memory: what a new buffer holds, what the
\* application writes, what a filter leaves in its image's buffer, and the
\* host destination before any read.
Initial == <<"init">>
Written == <<"A">>
Denoise(x) == Append(x, "F")
Unset == <<"unset">>

\* No image has been constructed.
NoLab == [step |-> "none"]
NoError == [code |-> "None", msg |-> ""]

NoDevice ==
  [st |-> "none", committed |-> FALSE, rc |-> 0, app |-> 0, errFunc |-> FALSE,
   pending |-> 0, torn |-> 0, queue |-> <<>>, done |-> <<>>, acq |-> 0,
   sycl |-> FALSE]
\* The image bound to a filter's slot: over a buffer, or over a raw pointer.
NoImage == [kind |-> "none", buf |-> Null, width |-> 0, height |-> 0]
NoObject ==
  [st |-> "none", kind |-> "none", dev |-> Null, rc |-> 0, app |-> 0,
   img |-> NoImage, prog |-> FALSE, torn |-> 0, data |-> <<>>]
Idle ==
  [pc |-> "idle", call |-> "none", h |-> Null, h2 |-> Null, args |-> NoArgs,
   xarg |-> "", exc |-> NoExc, ret |-> "none", retmsg |-> "", newh |-> Null,
   nset |-> 0, chan |-> Null, code |-> "None", msg |-> "", slock |-> "none",
   ecb |-> "none", pcb |-> "none", seen |-> NoExc, ticket |-> 0,
   numStreams |-> 0, numDepEvents |-> 0, doneEvents |-> <<>>,
   doneEvent |-> "unset"]

\* A live device holding rc references, one of them the application's.
LiveDevice(committed, rc) ==
  [NoDevice EXCEPT !.st = "live", !.committed = committed, !.rc = rc, !.app = 1]
\* A live buffer or filter on device d, held by the application.
LiveObject(kind, d) ==
  [NoObject EXCEPT !.st = "live", !.kind = kind, !.dev = d, !.rc = 1, !.app = 1,
                   !.data = IF kind = "buffer" THEN Initial ELSE <<>>]

\* The states the application's set-up leaves, each reached from the empty
\* state by successful calls: nothing created; one device, not committed
\* (oidnNewDevice) or committed (oidnCommitDevice); a committed device with a
\* buffer and a filter (oidnNewBuffer, oidnNewFilter), either with the buffer
\* retained once more (oidnRetainBuffer) or with the error and progress
\* callbacks installed and an image over the buffer bound to the filter
\* (oidnSetFilterImage), which holds a reference to the buffer; two
\* committed devices,
\* the buffer on the first and the filter on the second.
SetUps ==
  { [dev |-> [d \in Devices |-> NoDevice],
     obj |-> [o \in Objects |-> NoObject]],
    [dev |-> [d \in Devices |-> IF d = 1 THEN LiveDevice(FALSE, 1) ELSE NoDevice],
     obj |-> [o \in Objects |-> NoObject]],
    [dev |-> [d \in Devices |-> IF d = 1 THEN LiveDevice(TRUE, 1) ELSE NoDevice],
     obj |-> [o \in Objects |-> NoObject]],
    [dev |-> [d \in Devices |-> IF d = 1 THEN LiveDevice(TRUE, 3) ELSE NoDevice],
     obj |-> [o \in Objects |->
                IF o = 1
                THEN [LiveObject("buffer", 1) EXCEPT !.rc = 2, !.app = 2]
                ELSE LiveObject("filter", 1)]],
    [dev |-> [d \in Devices |->
                IF d = 1 THEN [LiveDevice(TRUE, 3) EXCEPT !.errFunc = TRUE]
                ELSE NoDevice],
     obj |-> [o \in Objects |->
                IF o = 1 THEN [LiveObject("buffer", 1) EXCEPT !.rc = 2]
                ELSE [LiveObject("filter", 1) EXCEPT
                        !.prog = TRUE,
                        !.img = [kind |-> "buffer", buf |-> 1,
                                 width |-> 2, height |-> 2]]]],
    [dev |-> [d \in Devices |-> LiveDevice(TRUE, 2)],
     obj |-> [o \in Objects |->
                LiveObject(IF o = 1 THEN "buffer" ELSE "filter", o)]] }

Init ==
  /\ \E s \in SetUps : dev = s.dev /\ obj = s.obj
  /\ err = [c \in Channels |-> NoError]
  /\ mutex = [d \in Devices |-> Null]
  /\ th = [t \in Threads |-> Idle]
  /\ calls = [t \in Threads |-> 0]
  /\ lastFail = [c \in Channels |-> NoExc]
  /\ uaf = {}
  /\ host = Unset
  /\ lab = NoLab

(***************************************************************************)
(* Helpers.                                                                *)
(***************************************************************************)
\* obj->getDevice(): a device is its own device, a child has a back-reference.
getDevice(kind, h) == IF kind = "device" THEN h ELSE obj[h].dev

\* Whether the object behind a handle has been torn down.
TornDown(kind, h) ==
  IF kind = "device" THEN dev[h].st = "dead" ELSE obj[h].st = "dead"

\* The handles the application may pass: null, or one it holds a reference to.
HandlesOf(kind) == {Null} \cup (IF kind = "device" THEN Devices ELSE Objects)
Holds(kind, h) ==
  IF kind = "device" THEN h \in Devices /\ dev[h].app >= 1
  ELSE h \in Objects /\ obj[h].kind = kind /\ obj[h].app >= 1
Usable(kind, h) == h = Null \/ Holds(kind, h)

\* Thread u is inside an entry point that was handed the object.
Uses(u, kind, h) ==
  /\ th[u].pc \notin {"idle", "ret", "escaped"}
  /\ th[u].call \notin ReleaseCalls
  /\ \/ HandleKind(th[u].call) = kind /\ th[u].h = h
     \/ kind = "buffer" /\ th[u].call = "oidnSetFilterImage" /\ th[u].h2 = h

\* The application releases a reference only if every call still running on
\* the object keeps one.
MayRelease(t, kind, h) ==
  /\ Holds(kind, h)
  /\ \/ (IF kind = "device" THEN dev[h].app ELSE obj[h].app) >= 2
     \/ \A u \in Threads \ {t} : ~Uses(u, kind, h)

\* A thread starts an entry point only when it is not inside one.
MayCall(t) == th[t].pc = "idle"

Started(t) == [calls EXCEPT ![t] = @ + 1]
Begin(t, ep, h) == [Idle EXCEPT !.call = ep, !.h = h]

\* RefCount::incRef and RefCount::decRefKeep (the count after the change).
incRef(rc) == rc + 1
decRefKeep(rc) == rc - 1

\* Device::setError on a channel: the slot holds the last failure.
setError(slots, chan, code, message) ==
  [slots EXCEPT ![chan] = [code |-> code, msg |-> message]]

\* Device::getError on a channel: reading consumes the slot.
getError(slots, chan) == [slots EXCEPT ![chan] = NoError]

\* Device::checkCommitted.
checkCommitted(d) ==
  IF dev[d].committed THEN NoExc
  ELSE Exception("InvalidOperation", "device not committed")

\* Whether the calling thread holds the mutex of device d.
LockState(t, d) == IF mutex[d] = t THEN "locked" ELSE "unlocked"

\* The first of two failures that is one (the order of the checks in a body).
FirstOf(e1, e2) == IF e1 # NoExc THEN e1 ELSE e2

\* The free slot a new device or a new child is created in.
FreeDevice == CHOOSE d \in Devices : dev[d].st = "none" /\ \A x \in Devices : dev[x].st = "none" => d <= x
FreeObject == CHOOSE o \in Objects : obj[o].st = "none" /\ \A x \in Objects : obj[x].st = "none" => o <= x

(***************************************************************************)
(* Entry points without OIDN_LOCK: device creation, retain, release and    *)
(* oidnGetDeviceError.                                                     *)
(***************************************************************************)
MaxRefs == 2
DeviceTypes == {"default", "cpu", "other"}
SupportedTypes == {"default", "cpu"}

Returned(t, r, n) == [th EXCEPT ![t].pc = "ret", ![t].ret = r, ![t].newh = n]
Raised(t, e) == [th EXCEPT ![t].pc = "catch", ![t].exc = e]

\* oidnNewDevice: the device type is not built in, or the constructor fails
\* with f, or a device with one reference (the caller's) is created.
oidnNewDevice(t, type, f) ==
  /\ MayCall(t)
  /\ \E d \in Devices : dev[d].st = "none"
  /\ LET e == IF type \in SupportedTypes THEN f
              ELSE Exception("InvalidArgument", "unsupported device type")
         d == FreeDevice
         c == Begin(t, "oidnNewDevice", Null)
     IN  IF e = NoExc
         THEN /\ dev' = [dev EXCEPT ![d] =
                          [NoDevice EXCEPT !.st = "live", !.rc = 1, !.app = 1]]
              /\ th' = [th EXCEPT ![t] =
                          [c EXCEPT !.pc = "ret", !.ret = "handle", !.newh = d]]
         ELSE /\ dev' = dev
              /\ th' = [th EXCEPT ![t] = [c EXCEPT !.pc = "catch", !.exc = e]]
  /\ calls' = Started(t)
  /\ UNCHANGED <<obj, err, mutex, lastFail, uaf, host, lab>>

\* The stream counts the application passes.
StreamCounts == {-1, 0, 1, 2}

UnsupportedStreams == "unsupported number of streams"

\* A stream-count test that refuses only more than one stream.
StreamCountAtMostOne(numStreams) ==
  IF numStreams <= 1 THEN NoExc
  ELSE Exception("InvalidArgument", UnsupportedStreams)

\* numStreams == 1: the device over streams[0]; numStreams == 0: the device
\* over the default stream; otherwise the constructor is not called.
StreamCount(numStreams) ==
  IF numStreams = 1 \/ numStreams = 0 THEN NoExc
  ELSE Exception("InvalidArgument", UnsupportedStreams)

\* oidnNewCUDADevice and oidnNewHIPDevice (streams holds numStreams streams):
\* the stream count is refused, or the constructor fails with f, or a device
\* with one reference (the caller's) is created.
NewStreamDevice(t, ep, numStreams, f) ==
  /\ MayCall(t)
  /\ \E d \in Devices : dev[d].st = "none"
  /\ LET e == FirstOf(StreamCount(numStreams), f)
         d == FreeDevice
         c == [Begin(t, ep, Null) EXCEPT !.numStreams = numStreams]
     IN  IF e = NoExc
         THEN /\ dev' = [dev EXCEPT ![d] =
                          [NoDevice EXCEPT !.st = "live", !.rc = 1, !.app = 1]]
              /\ th' = [th EXCEPT ![t] =
                          [c EXCEPT !.pc = "ret", !.ret = "handle", !.newh = d]]
         ELSE /\ dev' = dev
              /\ th' = [th EXCEPT ![t] = [c EXCEPT !.pc = "catch", !.exc = e]]
  /\ calls' = Started(t)
  /\ UNCHANGED <<obj, err, mutex, lastFail, uaf, host, lab>>

oidnNewCUDADevice(t, numStreams, f) ==
  NewStreamDevice(t, "oidnNewCUDADevice", numStreams, f)
oidnNewHIPDevice(t, numStreams, f) ==
  NewStreamDevice(t, "oidnNewHIPDevice", numStreams, f)

\* The reference count of an object, and the state with it changed by the
\* application (its own count of references changes by delta).
RefCount(kind, h) == IF kind = "device" THEN dev[h].rc ELSE obj[h].rc
SetRefCount(kind, h, n, delta) ==
  /\ dev' = IF kind = "device"
            THEN [dev EXCEPT ![h].rc = n, ![h].app = @ + delta] ELSE dev
  /\ obj' = IF kind = "device" THEN obj
            ELSE [obj EXCEPT ![h].rc = n, ![h].app = @ + delta]
  /\ uaf' = IF TornDown(kind, h) THEN uaf \cup {"refcount"} ELSE uaf

\* retainObject: incRef, or the handle check's failure for a null handle.
retainObject(t, ep, h) ==
  /\ MayCall(t)
  /\ ep \in RetainCalls
  /\ h \in HandlesOf(HandleKind(ep))
  /\ Usable(HandleKind(ep), h)
  /\ h # Null => RefCount(HandleKind(ep), h) < MaxRefs
  /\ IF h = Null
     THEN /\ th' = [th EXCEPT ![t] =
                      [Begin(t, ep, h) EXCEPT !.pc = "catch",
                                              !.exc = checkHandle(h)]]
          /\ UNCHANGED <<dev, obj, uaf>>
     ELSE /\ SetRefCount(HandleKind(ep), h,
                         incRef(RefCount(HandleKind(ep), h)), 1)
          /\ th' = [th EXCEPT ![t] =
                      [Begin(t, ep, h) EXCEPT !.pc = "ret", !.ret = "void"]]
  /\ calls' = Started(t)
  /\ UNCHANGED <<err, mutex, lastFail, host, lab>>

\* An off-by-one test of the count decRefKeep returns.
LastReferenceOffByOne(count) == count = 1

\* releaseObject: the test that decides whether this release tears down.
LastReference(count) == count = 0

\* releaseObject, first part: decRefKeep; only the release that drops the
\* count to zero goes on (to the lock for a child, to the wait for a device).
releaseObject(t, ep, h) ==
  /\ MayCall(t)
  /\ ep \in ReleaseCalls
  /\ h \in HandlesOf(HandleKind(ep))
  /\ h = Null \/ MayRelease(t, HandleKind(ep), h)
  /\ IF h = Null
     THEN /\ th' = [th EXCEPT ![t] =
                      [Begin(t, ep, h) EXCEPT !.pc = "catch",
                                              !.exc = checkHandle(h)]]
          /\ UNCHANGED <<dev, obj, uaf>>
     ELSE LET n == decRefKeep(RefCount(HandleKind(ep), h))
              next == IF ~LastReference(n) THEN "ret"
                      ELSE IF HandleKind(ep) = "device" THEN "devwait"
                      ELSE "lock"
          IN  /\ SetRefCount(HandleKind(ep), h, n, -1)
              /\ th' = [th EXCEPT ![t] =
                          [Begin(t, ep, h) EXCEPT !.pc = next, !.ret = "void"]]
  /\ calls' = Started(t)
  /\ UNCHANGED <<err, mutex, lastFail, host, lab>>

\* oidnGetDeviceError: no handle check and no lock; Device::getError reads
\* and consumes the slot of the device, or of "no device" for a null handle.
oidnGetDeviceError(t, h, f) ==
  /\ MayCall(t)
  /\ h \in HandlesOf("device")
  /\ Usable("device", h)
  /\ LET c == Begin(t, "oidnGetDeviceError", h)
     IN  IF f = NoExc
         THEN /\ th' = [th EXCEPT ![t] =
                          [c EXCEPT !.pc = "ret", !.ret = err[h].code,
                                    !.retmsg = err[h].msg,
                                    !.seen = lastFail[h],
                                    !.slock = IF h = Null THEN "none"
                                              ELSE LockState(t, h)]]
              /\ err' = getError(err, h)
              /\ lastFail' = [lastFail EXCEPT ![h] = NoExc]
         ELSE /\ th' = [th EXCEPT ![t] = [c EXCEPT !.pc = "catch", !.exc = f]]
              /\ UNCHANGED <<err, lastFail>>
  /\ uaf' = IF h # Null /\ TornDown("device", h)
            THEN uaf \cup {"getError"} ELSE uaf
  /\ calls' = Started(t)
  /\ UNCHANGED <<dev, obj, mutex, host, lab>>

(***************************************************************************)
(* Entry points of the shape  OIDN_TRY checkHandle; OIDN_LOCK; operation   *)
(* OIDN_CATCH.                                                             *)
(***************************************************************************)
\* What the application passes besides the handles and the image arguments:
\* for the external-memory entry points the memory type (one the device
\* advertises, one it does not, the two bits together, or no bit) and which
\* of handle and name are non-null, for oidnSetSharedFilterImage whether the
\* pointer is null.
ExtraArgs(ep) ==
  CASE ep = "oidnNewSharedBufferFromFD" ->
         {"supported", "unsupported", "mixed", "none"}
    [] ep = "oidnNewSharedBufferFromWin32Handle" ->
         {"handle", "name", "neither", "both", "unsupported", "mixed", "none"}
    [] ep = "oidnSetSharedFilterImage" -> {"pointer", "nullptr"}
    [] OTHER -> {""}

\* The handle checks an entry point makes before it locks.
HandleChecks(ep, h, h2) ==
  FirstOf(checkHandle(h),
          IF ep = "oidnSetFilterImage" THEN checkHandle(h2) ELSE NoExc)

\* The start of a locked entry point: the handle checks, which throw before
\* the lock is taken.
EnterCall(t, ep, h, h2, args, xarg) ==
  /\ MayCall(t)
  /\ ep \in LockedCalls
  /\ h \in HandlesOf(HandleKind(ep))
  /\ Usable(HandleKind(ep), h)
  /\ IF ep = "oidnSetFilterImage"
     THEN h2 \in HandlesOf("buffer") /\ Usable("buffer", h2)
     ELSE h2 = Null
  /\ IF ep \in SetImageCalls THEN args \in Geometries ELSE args = NoArgs
  /\ xarg \in ExtraArgs(ep)
  /\ LET e == HandleChecks(ep, h, h2)
     IN  th' = [th EXCEPT ![t] =
                  [Begin(t, ep, h) EXCEPT
                     !.pc = IF e = NoExc THEN "lock" ELSE "catch",
                     !.h2 = h2, !.args = args, !.xarg = xarg, !.exc = e]]
  /\ calls' = Started(t)
  /\ UNCHANGED <<dev, obj, err, mutex, lastFail, uaf, host, lab>>

\* The device whose mutex the running entry point locks.
Owner(t) == getDevice(HandleKind(th[t].call), th[t].h)

\* An entry point that runs its body without the lock_guard.
AcquireNothing(t, d) == mutex

\* The lock_guard's constructor: the thread owns the mutex of device d.
Acquire(t, d) == [mutex EXCEPT ![d] = t]

\* A lock_guard that outlives the try block.
ScopeExitKeeps(t) == mutex

\* The lock_guard's destructor at the end of the try block, which runs on a
\* return and on a throw alike, before any catch clause.
ScopeExit(t) == [mutex EXCEPT ![Owner(t)] = Null]

\* OIDN_LOCK(obj): std::lock_guard on obj->getDevice()->getMutex(); blocks
\* while another thread holds the mutex.
OIDN_LOCK(t) ==
  /\ th[t].pc = "lock"
  /\ mutex[Owner(t)] = Null
  /\ mutex' = Acquire(t, Owner(t))
  /\ dev' = [dev EXCEPT ![Owner(t)].acq = @ + 1]
  /\ th' = [th EXCEPT ![t].pc =
              IF th[t].call \in ReleaseCalls THEN "wait" ELSE "body",
                      ![t].ticket = dev[Owner(t)].acq + 1]
  /\ uaf' = uaf
            \cup (IF TornDown(HandleKind(th[t].call), th[t].h)
                  THEN {"getDevice"} ELSE {})
            \cup (IF dev[Owner(t)].st = "dead" THEN {"mutex"} ELSE {})
  /\ UNCHANGED <<obj, err, calls, lastFail, host, lab>>

\* std::mutex::lock may throw std::system_error; in a release that skips
\* destroy.
LockFails(t) ==
  /\ th[t].pc = "lock"
  /\ th' = Raised(t, SystemError)
  /\ obj' = IF th[t].call \in ReleaseCalls
            THEN [obj EXCEPT ![th[t].h].st = "leaked"] ELSE obj
  /\ UNCHANGED <<dev, err, mutex, calls, lastFail, uaf, host, lab>>

InBody(t, eps) == th[t].pc = "body" /\ th[t].call \in eps

\* The end of the try block: the result is returned or e is thrown; either
\* way the lock_guard goes out of scope and the mutex is released.
Leave(t, e, r, n) ==
  /\ th' = IF e = NoExc THEN Returned(t, r, n) ELSE Raised(t, e)
  /\ mutex' = ScopeExit(t)

\* Same, for an operation with no handle result.
Done(t, e) == Leave(t, e, Success(th[t].call), Null)

\* Getters, setters and the buffer and filter operations whose state is not
\* part of this model: they complete, or the operation throws f.
Accessor(t, f) ==
  /\ InBody(t, DeviceAccessors \cup BufferAccessors \cup FilterAccessors)
  /\ Done(t, f)
  /\ UNCHANGED <<dev, obj, err, calls, lastFail, uaf, host, lab>>

\* oidnSetDeviceErrorFunction: installs (func) or removes the callback.
oidnSetDeviceErrorFunction(t, func, f) ==
  /\ InBody(t, {"oidnSetDeviceErrorFunction"})
  /\ dev' = IF f = NoExc THEN [dev EXCEPT ![Owner(t)].errFunc = func] ELSE dev
  /\ Done(t, f)
  /\ UNCHANGED <<obj, err, calls, lastFail, uaf, host, lab>>

\* oidnCommitDevice: Device::commit.
oidnCommitDevice(t, f) ==
  /\ InBody(t, {"oidnCommitDevice"})
  /\ dev' = IF f = NoExc THEN [dev EXCEPT ![Owner(t)].committed = TRUE] ELSE dev
  /\ Done(t, f)
  /\ UNCHANGED <<obj, err, calls, lastFail, uaf, host, lab>>

\* Device::wait: returns once no async work is pending, or throws f.
WaitReturns(d, f) == f = NoExc => dev[d].pending = 0

\* An oidnSyncDevice that returns without waiting.
SyncDeviceReturnsAtOnce(d, f) == TRUE

\* oidnSyncDevice: device->wait() under the lock.
SyncDevice(d, f) == WaitReturns(d, f)

\* oidnSyncDevice, and the synchronous oidnReadBuffer and oidnWriteBuffer,
\* which block until the queue has drained.
SyncCall(t, f) ==
  /\ InBody(t, {"oidnSyncDevice"} \cup BufferSyncCalls)
  /\ SyncDevice(Owner(t), f)
  /\ obj' = IF f = NoExc /\ th[t].call = "oidnWriteBuffer"
            THEN [obj EXCEPT ![th[t].h].data = Written] ELSE obj
  /\ host' = IF f = NoExc /\ th[t].call = "oidnReadBuffer"
             THEN obj[th[t].h].data ELSE host
  /\ Done(t, f)
  /\ UNCHANGED <<dev, err, calls, lastFail, uaf, lab>>

\* A piece of async work on the engine's queue: the operation, the buffer it
\* reads or writes, the position of its entry point among the acquisitions
\* of the device's mutex, the calling thread and the number of its call.
Work(t, op, b) ==
  [op |-> op, buf |-> b, ticket |-> th[t].ticket, by |-> t, seq |-> calls[t]]

\* The engine's queue with one more piece of work at its end.
Enqueue(d, w) ==
  [dev EXCEPT ![d].pending = @ + 1, ![d].queue = Append(@, w)]

\* oidnReadBufferAsync, oidnWriteBufferAsync: enqueue on the engine.
AsyncBufferCall(t, f) ==
  /\ InBody(t, BufferAsyncCalls)
  /\ f = NoExc => dev[Owner(t)].pending < MaxPending
  /\ dev' = IF f # NoExc THEN dev
            ELSE Enqueue(Owner(t),
                         Work(t, IF th[t].call = "oidnReadBufferAsync"
                                 THEN "read" ELSE "write", th[t].h))
  /\ Done(t, f)
  /\ UNCHANGED <<obj, err, calls, lastFail, uaf, host, lab>>

\* Device::getExternalMemoryTypes: the mask of the external memory types a
\* device advertises; each type is one bit of the mask.
getExternalMemoryTypes == {"OpaqueFD", "OpaqueWin32"}

\* (ExternalMemoryTypeFlag)fdType, (ExternalMemoryTypeFlag)handleType: the
\* bits of the value the application passes: one advertised type, one type
\* the device does not advertise, the two together, or no bit at all.
ExternalMemoryTypeFlag(ep, xarg) ==
  LET own == IF ep = "oidnNewSharedBufferFromFD" THEN "OpaqueFD"
             ELSE "OpaqueWin32"
      foreign == IF ep = "oidnNewSharedBufferFromFD" THEN "DMABuf"
                 ELSE "D3D11Texture"
  IN  CASE xarg = "unsupported" -> {foreign}
        [] xarg = "mixed" -> {own, foreign}
        [] xarg = "none" -> {}
        [] OTHER -> {own}

\* Whether the handle and the name passed to
\* oidnNewSharedBufferFromWin32Handle are non-null.
HandleGiven(xarg) == xarg \in {"handle", "both", "unsupported", "mixed", "none"}
NameGiven(xarg) == xarg \in {"name", "both"}

TypeNotSupported == "external memory type not supported by the device"
HandleAndName ==
  "exactly one of the external memory handle and name must be non-null"

\* External-memory checks without the type test.
ExternalMemoryChecksAnyType(ep, xarg) ==
  IF /\ ep = "oidnNewSharedBufferFromWin32Handle"
     /\ \/ ~HandleGiven(xarg) /\ ~NameGiven(xarg)
        \/ HandleGiven(xarg) /\ NameGiven(xarg)
  THEN Exception("InvalidArgument", HandleAndName)
  ELSE NoExc

\* External-memory checks that refuse only a call with neither handle nor
\* name.
ExternalMemoryChecksAtLeastOne(ep, xarg) ==
  IF /\ ep \in {"oidnNewSharedBufferFromFD",
                "oidnNewSharedBufferFromWin32Handle"}
     /\ ExternalMemoryTypeFlag(ep, xarg) \cap getExternalMemoryTypes = {}
  THEN Exception("InvalidArgument", TypeNotSupported)
  ELSE IF /\ ep = "oidnNewSharedBufferFromWin32Handle"
          /\ ~HandleGiven(xarg) /\ ~NameGiven(xarg)
  THEN Exception("InvalidArgument", HandleAndName)
  ELSE NoExc

\* The checks of the external-memory entry points after checkCommitted: the
\* type test !(type & device->getExternalMemoryTypes()), then for Win32
\* handles (!handle && !name) || (handle && name).
ExternalMemoryChecks(ep, xarg) ==
  IF /\ ep \in {"oidnNewSharedBufferFromFD",
                "oidnNewSharedBufferFromWin32Handle"}
     /\ ExternalMemoryTypeFlag(ep, xarg) \cap getExternalMemoryTypes = {}
  THEN Exception("InvalidArgument", TypeNotSupported)
  ELSE IF /\ ep = "oidnNewSharedBufferFromWin32Handle"
          /\ \/ ~HandleGiven(xarg) /\ ~NameGiven(xarg)
             \/ HandleGiven(xarg) /\ NameGiven(xarg)
  THEN Exception("InvalidArgument", HandleAndName)
  ELSE NoExc

\* The commit gate without the gate.
NewChildChecksUngated(d, ep, xarg) == ExternalMemoryChecks(ep, xarg)

\* The checks of a child-creation entry point before it asks the engine.
NewChildChecks(d, ep, xarg) ==
  FirstOf(checkCommitted(d), ExternalMemoryChecks(ep, xarg))

\* oidnNewBuffer, oidnNewBufferWithStorage, oidnNewSharedBuffer,
\* oidnNewSharedBufferFromFD, oidnNewSharedBufferFromWin32Handle and
\* oidnNewFilter: the checks, then the engine creates the child (which holds
\* a reference to the device) or throws f.
NewChild(t, f) ==
  /\ InBody(t, NewChildCalls)
  /\ LET d == Owner(t)
         e == FirstOf(NewChildChecks(d, th[t].call, th[t].xarg), f)
         o == FreeObject
     IN  /\ e = NoExc => \E x \in Objects : obj[x].st = "none"
         /\ obj' = IF e # NoExc THEN obj
                   ELSE [obj EXCEPT ![o] =
                           LiveObject(IF th[t].call = "oidnNewFilter"
                                      THEN "filter" ELSE "buffer", d)]
         /\ dev' = IF e # NoExc THEN dev
                   ELSE [dev EXCEPT ![d].rc = incRef(@)]
         /\ Leave(t, e, "handle", o)
  /\ UNCHANGED <<err, calls, lastFail, uaf, host, lab>>

\* The devices after a child of d has dropped its reference to it: the
\* device is torn down when that was the last reference.
ChildGone(devs, d) ==
  LET n == decRefKeep(devs[d].rc)
  IN  [devs EXCEPT ![d].rc = n,
                   ![d].st = IF n = 0 THEN "dead" ELSE @,
                   ![d].torn = IF n = 0 THEN @ + 1 ELSE @]

\* The buffer whose reference the image in filter fl's slot holds, or Null.
BoundBuffer(objs, fl) ==
  IF objs[fl].img.kind = "buffer" THEN objs[fl].img.buf ELSE Null

\* Whether dropping the image in fl's slot drops the last reference of its
\* buffer.
DropsLastReference(objs, fl) ==
  /\ BoundBuffer(objs, fl) # Null
  /\ decRefKeep(objs[BoundBuffer(objs, fl)].rc) = 0

\* The objects and devices after the image in filter fl's slot is dropped:
\* the image's reference to its buffer goes, and a buffer that loses its
\* last reference is torn down and drops its reference to the device.
DropImage(objs, devs, fl) ==
  LET b == BoundBuffer(objs, fl)
  IN  IF b = Null
      THEN [obj |-> [objs EXCEPT ![fl].img = NoImage], dev |-> devs]
      ELSE IF DropsLastReference(objs, fl)
      THEN [obj |-> [objs EXCEPT ![fl].img = NoImage, ![b].rc = 0,
                                 ![b].st = "dead", ![b].torn = @ + 1],
            dev |-> ChildGone(devs, objs[b].dev)]
      ELSE [obj |-> [objs EXCEPT ![fl].img = NoImage,
                                 ![b].rc = decRefKeep(@)],
            dev |-> devs]

\* Filter::setImage: the new image replaces the one in the slot.
SetImage(objs, devs, fl, image) ==
  LET dropped == DropImage(objs, devs, fl)
  IN  [obj |-> [dropped.obj EXCEPT ![fl].img = image], dev |-> dropped.dev]

\* A device check that compares the wrong way round.
SameDeviceInverted(b, fl) ==
  IF obj[b].dev = obj[fl].dev
  THEN Exception("InvalidArgument",
                 "the specified objects are bound to different devices")
  ELSE NoExc

\* oidnSetFilterImage: buffer->getDevice() != filter->getDevice() throws.
SameDevice(b, fl) ==
  IF obj[b].dev # obj[fl].dev
  THEN Exception("InvalidArgument",
                 "the specified objects are bound to different devices")
  ELSE NoExc

\* std::make_shared<Image>(buffer, format, (int)width, (int)height, ...).
MakeBufferImage(a) ==
  BufferImage(BufferBytes, a.format, ToSize(IntCast(a.width)),
              ToSize(IntCast(a.height)), a.byteOffset, a.pixelByteStride,
              a.rowByteStride)

\* std::make_shared<Image>(devPtr, format, (int)width, (int)height, ...).
MakePointerImage(ptrIsNull, a) ==
  PointerImage(ptrIsNull, a.format, ToSize(IntCast(a.width)),
               ToSize(IntCast(a.height)), a.byteOffset, a.pixelByteStride,
               a.rowByteStride)

\* oidnSetFilterImage: the device check, the image construction (the image
\* holds a reference to the buffer), then Filter::setImage binds the image
\* to the slot or throws f.  Dropping the last reference of the buffer of
\* the image that was in the slot drains the device first.
oidnSetFilterImage(t, f) ==
  /\ InBody(t, {"oidnSetFilterImage"})
  /\ LET fl == th[t].h
         b == th[t].h2
         image == MakeBufferImage(th[t].args)
         e == FirstOf(SameDevice(b, fl), FirstOf(image.exc, f))
         held == [obj EXCEPT ![b].rc = incRef(@)]
         bound == SetImage(held, dev, fl,
                           [kind |-> "buffer", buf |-> b,
                            width |-> image.width, height |-> image.height])
     IN  /\ e = NoExc /\ DropsLastReference(held, fl) =>
               dev[Owner(t)].pending = 0
         /\ obj' = IF e # NoExc THEN obj ELSE bound.obj
         /\ dev' = IF e # NoExc THEN dev ELSE bound.dev
         /\ Done(t, e)
         /\ uaf' = IF TornDown("buffer", b) THEN uaf \cup {"getDevice"}
                   ELSE uaf
  /\ UNCHANGED <<err, calls, lastFail, host, lab>>

\* oidnSetSharedFilterImage: the image over a raw pointer.
oidnSetSharedFilterImage(t, f) ==
  /\ InBody(t, {"oidnSetSharedFilterImage"})
  /\ LET fl == th[t].h
         image == MakePointerImage(th[t].xarg = "nullptr", th[t].args)
         e == FirstOf(image.exc, f)
         bound == SetImage(obj, dev, fl,
                           [kind |-> "pointer", buf |-> Null,
                            width |-> image.width, height |-> image.height])
     IN  /\ e = NoExc /\ DropsLastReference(obj, fl) =>
               dev[Owner(t)].pending = 0
         /\ obj' = IF e # NoExc THEN obj ELSE bound.obj
         /\ dev' = IF e # NoExc THEN dev ELSE bound.dev
         /\ Done(t, e)
  /\ UNCHANGED <<err, calls, lastFail, uaf, host, lab>>

\* oidnRemoveFilterImage: Filter::removeImage empties the slot.
oidnRemoveFilterImage(t, f) ==
  /\ InBody(t, {"oidnRemoveFilterImage"})
  /\ LET fl == th[t].h
         removed == DropImage(obj, dev, fl)
     IN  /\ f = NoExc /\ DropsLastReference(obj, fl) =>
               dev[Owner(t)].pending = 0
         /\ obj' = IF f # NoExc THEN obj ELSE removed.obj
         /\ dev' = IF f # NoExc THEN dev ELSE removed.dev
         /\ Done(t, f)
  /\ UNCHANGED <<err, calls, lastFail, uaf, host, lab>>

\* oidnSetFilterProgressMonitorFunction: installs or removes the callback.
oidnSetFilterProgressMonitorFunction(t, func, f) ==
  /\ InBody(t, {"oidnSetFilterProgressMonitorFunction"})
  /\ obj' = IF f = NoExc THEN [obj EXCEPT ![th[t].h].prog = func] ELSE obj
  /\ Done(t, f)
  /\ UNCHANGED <<dev, err, calls, lastFail, uaf, host, lab>>

\* oidnExecuteFilter: Filter::execute runs to completion inside the call; the
\* progress callback, if installed, is invoked and may cancel (continue
\* FALSE), which throws Cancelled; or the execution throws f.
oidnExecuteFilter(t, continue, f) ==
  /\ InBody(t, {"oidnExecuteFilter"})
  /\ continue \/ obj[th[t].h].prog
  /\ LET e == IF ~continue
              THEN Exception("Cancelled", "execution was cancelled") ELSE f
     IN  /\ WaitReturns(Owner(t), e)
         /\ th' = [(IF e = NoExc THEN Returned(t, "void", Null)
                    ELSE Raised(t, e))
                     EXCEPT ![t].pcb = IF obj[th[t].h].prog
                                       THEN LockState(t, Owner(t))
                                       ELSE "none"]
         /\ mutex' = ScopeExit(t)
         /\ obj' = IF e = NoExc /\ BoundBuffer(obj, th[t].h) # Null
                   THEN [obj EXCEPT ![BoundBuffer(obj, th[t].h)].data =
                                      Denoise(@)]
                   ELSE obj
  /\ UNCHANGED <<dev, err, calls, lastFail, uaf, host, lab>>

\* oidnExecuteFilterAsync: Filter::execute(SyncMode::Async) enqueues.
oidnExecuteFilterAsync(t, f) ==
  /\ InBody(t, {"oidnExecuteFilterAsync"})
  /\ f = NoExc => dev[Owner(t)].pending < MaxPending
  /\ dev' = IF f # NoExc THEN dev
            ELSE Enqueue(Owner(t),
                         Work(t, "execute", BoundBuffer(obj, th[t].h)))
  /\ Done(t, f)
  /\ UNCHANGED <<obj, err, calls, lastFail, uaf, host, lab>>

\* The queue counts the application passes to oidnNewSYCLDevice.
QueueCounts == {-1, 0, 1}

\* oidnNewSYCLDevice: a negative number of queues is refused, or the
\* constructor fails with f, or a SYCL device with one reference (the
\* caller's) is created.
oidnNewSYCLDevice(t, numQueues, f) ==
  /\ MayCall(t)
  /\ \E d \in Devices : dev[d].st = "none"
  /\ LET e == FirstOf(IF numQueues < 0
                      THEN Exception("InvalidArgument",
                                     "invalid number of queues")
                      ELSE NoExc, f)
         d == FreeDevice
         c == Begin(t, "oidnNewSYCLDevice", Null)
     IN  IF e = NoExc
         THEN /\ dev' = [dev EXCEPT ![d] =
                          [NoDevice EXCEPT !.st = "live", !.rc = 1, !.app = 1,
                                           !.sycl = TRUE]]
              /\ th' = [th EXCEPT ![t] =
                          [c EXCEPT !.pc = "ret", !.ret = "handle", !.newh = d]]
         ELSE /\ dev' = dev
              /\ th' = [th EXCEPT ![t] = [c EXCEPT !.pc = "catch", !.exc = e]]
  /\ calls' = Started(t)
  /\ UNCHANGED <<obj, err, mutex, lastFail, uaf, host, lab>>

\* The numbers of dependent events the application passes, and whether it
\* passes a doneEvent to receive the completion event ("event") or nullptr.
DepEventCounts == {-1, 0, 1}
DoneEventArgs == {"event", "nullptr"}

\* The completion events Device::getDoneEvents returns after the filter was
\* enqueued: none, one, or two.
DoneEventLists == {<<>>, <<"e1">>, <<"e2">>, <<"e1", "e2">>}

\* The start of oidnExecuteSYCLFilterAsync: checkHandle and the check of
\* numDepEvents, both before the lock is taken.
EnterSYCLExecute(t, h, numDepEvents, xarg) ==
  /\ MayCall(t)
  /\ h \in HandlesOf("filter")
  /\ Usable("filter", h)
  /\ xarg \in DoneEventArgs
  /\ LET e == FirstOf(checkHandle(h),
                      IF numDepEvents < 0
                      THEN Exception("InvalidArgument",
                                     "invalid number of dependent events")
                      ELSE NoExc)
     IN  th' = [th EXCEPT ![t] =
                  [Begin(t, "oidnExecuteSYCLFilterAsync", h) EXCEPT
                     !.pc = IF e = NoExc THEN "lock" ELSE "catch",
                     !.xarg = xarg, !.numDepEvents = numDepEvents,
                     !.exc = e]]
  /\ calls' = Started(t)
  /\ UNCHANGED <<dev, obj, err, mutex, lastFail, uaf, host, lab>>

\* An output that takes the first completion event whatever their number.
OutputDoneEventFirst(xarg, doneEvents, before) ==
  IF xarg = "nullptr" THEN [exc |-> NoExc, doneEvent |-> before]
  ELSE IF Len(doneEvents) >= 1
  THEN [exc |-> NoExc, doneEvent |-> doneEvents[1]]
  ELSE [exc |-> NoExc, doneEvent |-> "empty"]

\* The output of the completion event, made only when doneEvent is not
\* null: *doneEvent after the call, and the failure thrown.
OutputDoneEvent(xarg, doneEvents, before) ==
  IF xarg = "nullptr" THEN [exc |-> NoExc, doneEvent |-> before]
  ELSE IF Len(doneEvents) = 1
  THEN [exc |-> NoExc, doneEvent |-> doneEvents[1]]
  ELSE IF Len(doneEvents) = 0
  THEN [exc |-> NoExc, doneEvent |-> "empty"]
  ELSE [exc |-> LogicError, doneEvent |-> before]

\* oidnExecuteSYCLFilterAsync after the lock: the filter's device must be a
\* SYCL device; Filter::execute(SyncMode::Async) enqueues or throws f; the
\* engine reports doneEvents, and the completion event is output.
oidnExecuteSYCLFilterAsync(t, doneEvents, f) ==
  /\ InBody(t, {"oidnExecuteSYCLFilterAsync"})
  /\ LET d == Owner(t)
         notSycl == IF dev[d].sycl THEN NoExc
                    ELSE Exception("InvalidArgument",
                                   "filter does not belong to a SYCL device")
         ran == FirstOf(notSycl, f)
         out == OutputDoneEvent(th[t].xarg, doneEvents, th[t].doneEvent)
         e == FirstOf(ran, out.exc)
     IN  /\ ran = NoExc => dev[d].pending < MaxPending
         /\ dev' = IF ran # NoExc THEN dev
                   ELSE Enqueue(d, Work(t, "execute", BoundBuffer(obj, th[t].h)))
         /\ mutex' = ScopeExit(t)
         /\ th' = [th EXCEPT ![t] =
                     [th[t] EXCEPT
                        !.pc = IF e = NoExc THEN "ret" ELSE "catch",
                        !.ret = IF e = NoExc THEN "void" ELSE @,
                        !.exc = e,
                        !.doneEvents = IF ran = NoExc THEN doneEvents ELSE @,
                        !.doneEvent = IF ran = NoExc THEN out.doneEvent ELSE @]]
  /\ UNCHANGED <<obj, err, calls, lastFail, uaf, host, lab>>

\* A queue that hands out its newest piece of work first.
NextWorkNewest(q) == Len(q)

\* The position in the queue of the work the engine completes next: the
\* oldest (the queue is first-in first-out).
NextWork(q) == 1

\* The queue without its k-th piece of work.
Without(q, k) == SubSeq(q, 1, k - 1) \o SubSeq(q, k + 1, Len(q))

\* The engine completes a piece of async work of a device: a write fills the
\* buffer, an execution leaves the filter's output in its image's buffer, a
\* read copies the buffer to the host destination.
EngineCompletes(d) ==
  /\ dev[d].st \in {"live", "leaked"}
  /\ dev[d].pending > 0
  /\ LET k == NextWork(dev[d].queue)
         w == dev[d].queue[k]
     IN  /\ dev' = [dev EXCEPT ![d].pending = @ - 1,
                               ![d].queue = Without(@, k),
                               ![d].done = Append(@, w)]
         /\ obj' = CASE w.op = "write" -> [obj EXCEPT ![w.buf].data = Written]
                     [] w.op = "execute" /\ w.buf # Null ->
                          [obj EXCEPT ![w.buf].data = Denoise(@)]
                     [] OTHER -> obj
         /\ host' = IF w.op = "read" THEN obj[w.buf].data ELSE host
  /\ UNCHANGED <<err, mutex, th, calls, lastFail, uaf, lab>>

(***************************************************************************)
(* releaseObject after the last reference is gone.                         *)
(***************************************************************************)
\* A release that tears down without waiting for the device.
DrainedNoWait(d, f) == TRUE

\* releaseObject: obj->getDevice()->wait() before destroy.
Drained(d, f) == WaitReturns(d, f)

\* releaseObject<T>, under the lock: wait for the device's async work; a
\* failure of the wait leaves the try block (and releases the lock) without
\* destroy: the object, which nothing references, is never torn down.
releaseWait(t, f) ==
  /\ th[t].pc = "wait"
  /\ Drained(Owner(t), f)
  /\ IF f = NoExc
     THEN th' = [th EXCEPT ![t].pc = "destroy"] /\ mutex' = mutex
     ELSE th' = Raised(t, f) /\ mutex' = ScopeExit(t)
  /\ obj' = IF f = NoExc THEN obj ELSE [obj EXCEPT ![th[t].h].st = "leaked"]
  /\ UNCHANGED <<dev, err, calls, lastFail, uaf, host, lab>>

\* releaseObject<T>, under the lock: obj->destroy() tears the child down,
\* which drops a filter's image and the child's reference to its device;
\* then the lock_guard releases the device's mutex.
releaseDestroy(t) ==
  /\ th[t].pc = "destroy"
  /\ LET o == th[t].h
         d == obj[o].dev
         dropped == IF obj[o].kind = "filter" THEN DropImage(obj, dev, o)
                    ELSE [obj |-> obj, dev |-> dev]
         gone == ChildGone(dropped.dev, d)
     IN  /\ obj' = [dropped.obj EXCEPT ![o].st = "dead", ![o].torn = @ + 1]
         /\ dev' = gone
         /\ mutex' = [mutex EXCEPT ![d] = Null]
         /\ uaf' = IF gone[d].st = "dead" THEN uaf \cup {"mutex"} ELSE uaf
  /\ th' = Returned(t, "void", Null)
  /\ UNCHANGED <<err, calls, lastFail, host, lab>>

\* releaseObject<T>, under the lock, when obj->destroy() drops the last
\* reference to the device: the lock_guard's destructor unlocks a mutex that
\* was destroyed while locked.  The behaviour is undefined; releaseDestroy
\* is the outcome in which the unlock returns, this is the outcome in which
\* it does not (the call aborts or hangs in the unlock).
releaseDestroyUndefined(t) ==
  /\ th[t].pc = "destroy"
  /\ LET o == th[t].h
         d == obj[o].dev
         dropped == IF obj[o].kind = "filter" THEN DropImage(obj, dev, o)
                    ELSE [obj |-> obj, dev |-> dev]
         gone == ChildGone(dropped.dev, d)
     IN  /\ gone[d].st = "dead"
         /\ obj' = [dropped.obj EXCEPT ![o].st = "dead", ![o].torn = @ + 1]
         /\ dev' = gone
         /\ uaf' = uaf \cup {"mutex"}
  /\ th' = [th EXCEPT ![t].pc = "undefined"]
  /\ UNCHANGED <<err, mutex, calls, lastFail, host, lab>>

\* releaseObject<Device>: obj->wait() without the lock.
deviceWait(t, f) ==
  /\ th[t].pc = "devwait"
  /\ Drained(th[t].h, f)
  /\ th' = IF f = NoExc THEN [th EXCEPT ![t].pc = "devdestroy"]
           ELSE Raised(t, f)
  /\ dev' = IF f = NoExc THEN dev ELSE [dev EXCEPT ![th[t].h].st = "leaked"]
  /\ UNCHANGED <<obj, err, mutex, calls, lastFail, uaf, host, lab>>

\* releaseObject<Device>: obj->destroy().
deviceDestroy(t) ==
  /\ th[t].pc = "devdestroy"
  /\ dev' = [dev EXCEPT ![th[t].h].st = "dead", ![th[t].h].torn = @ + 1]
  /\ th' = Returned(t, "void", Null)
  /\ UNCHANGED <<obj, err, mutex, calls, lastFail, uaf, host, lab>>

(***************************************************************************)
(* OIDN_CATCH and the return.                                              *)
(***************************************************************************)
\* A handler that reports every failure on no device.
ErrorDeviceNone(ep, h) == Null

\* OIDN_CATCH(obj): obj ? obj->getDevice() : nullptr.  In the device
\* constructors obj is the Ref that is still null when the creation failed.
ErrorDevice(ep, h) ==
  IF h = Null THEN Null ELSE getDevice(HandleKind(ep), h)

\* A handler list without the final catch (...).
CatchClausesNoEllipsis(e) ==
  IF e.type = "unknown" THEN <<>>
  ELSE <<[code |-> CatchCode(e), msg |-> CatchMessage(e)]>>

\* The catch clauses of OIDN_CATCH: the one setError call made for a thrown
\* object (the first clause that matches; catch (...) matches everything).
CatchClauses(e) == <<[code |-> CatchCode(e), msg |-> CatchMessage(e)]>>

\* OIDN_CATCH: the try block has been left, so the lock_guard is gone; the
\* matching clause calls Device::setError, which stores the error in the
\* slot and invokes the device's error callback if one is installed; then
\* the entry point returns its fall-through value.
OIDN_CATCH(t) ==
  /\ th[t].pc = "catch"
  /\ LET c == th[t]
         target == ErrorDevice(c.call, c.h)
         clauses == CatchClauses(c.exc)
     IN  IF clauses = <<>>
         THEN /\ th' = [th EXCEPT ![t].pc = "escaped"]
              /\ UNCHANGED <<err, lastFail, uaf>>
         ELSE /\ err' = setError(err, target, clauses[1].code, clauses[1].msg)
              /\ lastFail' = [lastFail EXCEPT ![target] = c.exc]
              /\ th' = [th EXCEPT ![t] =
                          [c EXCEPT
                             !.pc = "ret", !.ret = Sentinel(c.call),
                             !.retmsg = "", !.nset = @ + 1, !.chan = target,
                             !.code = clauses[1].code, !.msg = clauses[1].msg,
                             !.slock = IF target = Null THEN "none"
                                       ELSE LockState(t, target),
                             !.ecb = IF target # Null /\ dev[target].errFunc
                                     THEN LockState(t, target) ELSE "none"]]
              /\ uaf' = IF c.h # Null /\ TornDown(HandleKind(c.call), c.h)
                        THEN uaf \cup {"getDevice"} ELSE uaf
  /\ UNCHANGED <<dev, obj, mutex, calls, host, lab>>

\* The entry point returns to the application.
Return(t) ==
  /\ th[t].pc = "ret"
  /\ th' = [th EXCEPT ![t] = Idle]
  /\ UNCHANGED <<dev, obj, err, mutex, calls, lastFail, uaf, host, lab>>

(***************************************************************************)
(* The specifications.  A menu names the threads that call, the entry      *)
(* points and arguments they pass, the failures the environment raises     *)
(* inside a body, and how many entry points each thread starts.            *)
(***************************************************************************)
\* The handles the application may pass to an entry point.
Passable(kind) == {h \in HandlesOf(kind) : Usable(kind, h)}
SecondHandles(ep) ==
  IF ep = "oidnSetFilterImage" THEN Passable("buffer") ELSE {Null}
ImageArguments(m, ep) == IF ep \in SetImageCalls THEN m.images ELSE {NoArgs}

\* One step of a thread of the menu, or of an engine.
Step(m) ==
  \/ \E t \in m.threads :
       /\ MayCall(t) /\ calls[t] < m.budget[t]
       /\ "oidnNewDevice" \in m.calls
       /\ \E type \in m.types, f \in m.faults : oidnNewDevice(t, type, f)
  \/ \E t \in m.threads :
       /\ MayCall(t) /\ calls[t] < m.budget[t]
       /\ \E ep \in RetainCalls \cap m.calls :
            \E h \in Passable(HandleKind(ep)) : retainObject(t, ep, h)
  \/ \E t \in m.threads :
       /\ MayCall(t) /\ calls[t] < m.budget[t]
       /\ \E ep \in ReleaseCalls \cap m.calls :
            \E h \in Passable(HandleKind(ep)) : releaseObject(t, ep, h)
  \/ \E t \in m.threads :
       /\ MayCall(t) /\ calls[t] < m.budget[t]
       /\ "oidnGetDeviceError" \in m.calls
       /\ \E h \in Passable("device"), f \in m.faults :
            oidnGetDeviceError(t, h, f)
  \/ \E t \in m.threads :
       /\ MayCall(t) /\ calls[t] < m.budget[t]
       /\ \E ep \in LockedCalls \cap m.calls :
            \E h \in Passable(HandleKind(ep)), h2 \in SecondHandles(ep),
               args \in ImageArguments(m, ep), xarg \in ExtraArgs(ep) :
              EnterCall(t, ep, h, h2, args, xarg)
  \/ \E t \in m.threads : OIDN_LOCK(t)
  \/ \E t \in m.threads : StdException \in m.faults /\ LockFails(t)
  \/ \E t \in m.threads, f \in m.faults : Accessor(t, f)
  \/ \E t \in m.threads, func \in BOOLEAN, f \in m.faults :
       oidnSetDeviceErrorFunction(t, func, f)
  \/ \E t \in m.threads, f \in m.faults : oidnCommitDevice(t, f)
  \/ \E t \in m.threads, f \in m.faults : SyncCall(t, f)
  \/ \E t \in m.threads, f \in m.faults : AsyncBufferCall(t, f)
  \/ \E t \in m.threads, f \in m.faults : NewChild(t, f)
  \/ \E t \in m.threads, f \in m.faults : oidnSetFilterImage(t, f)
  \/ \E t \in m.threads, f \in m.faults : oidnSetSharedFilterImage(t, f)
  \/ \E t \in m.threads, f \in m.faults : oidnRemoveFilterImage(t, f)
  \/ \E t \in m.threads, func \in BOOLEAN, f \in m.faults :
       oidnSetFilterProgressMonitorFunction(t, func, f)
  \/ \E t \in m.threads, continue \in BOOLEAN, f \in m.faults :
       oidnExecuteFilter(t, continue, f)
  \/ \E t \in m.threads, f \in m.faults : oidnExecuteFilterAsync(t, f)
  \/ \E d \in Devices : EngineCompletes(d)
  \/ \E t \in m.threads, f \in m.faults : releaseWait(t, f)
  \/ \E t \in m.threads : releaseDestroy(t)
  \/ \E t \in m.threads, f \in m.faults : deviceWait(t, f)
  \/ \E t \in m.threads : deviceDestroy(t)
  \/ \E t \in m.threads : OIDN_CATCH(t)
  \/ \E t \in m.threads : Return(t)

AllCalls == HandleCalls \cup {"oidnNewDevice"}

\* One entry point of every shape of body; the entry points left out differ
\* from one kept only in the type of the result.
CoreCalls ==
  RetainCalls \cup ReleaseCalls
    \cup {"oidnNewDevice", "oidnGetDeviceError", "oidnSetDevice1i",
          "oidnSetDeviceErrorFunction", "oidnCommitDevice", "oidnSyncDevice",
          "oidnNewBuffer", "oidnNewFilter", "oidnWriteBufferAsync",
          "oidnSetFilterImage", "oidnSetSharedFilterImage",
          "oidnRemoveFilterImage",
          "oidnSetFilterProgressMonitorFunction", "oidnExecuteFilter",
          "oidnExecuteFilterAsync"}

\* Two threads calling concurrently.
Concurrent ==
  [threads |-> Threads, calls |-> CoreCalls, types |-> {"cpu"},
   faults |-> {NoExc, StdException},
   images |-> {ImageArgs("Float", 2, 2, 0, 0, 0)},
   budget |-> [t \in Threads |-> IF t = 1 THEN MaxCalls ELSE MaxWorkerCalls]]

\* One thread calling every entry point with every failure.
Sequential ==
  [threads |-> {1}, calls |-> AllCalls, types |-> DeviceTypes,
   faults |-> {NoExc} \cup Faults, images |-> Geometries,
   budget |-> [t \in Threads |-> MaxApiCalls]]

Next == Step(Concurrent)
Spec == Init /\ [][Next]_vars

\* The steps by which thread t goes on with the entry point it is inside:
\* the lock acquisition, the body, the wait and destroy of a release, the
\* catch handler and the return.
Continue(m, t) ==
  \/ OIDN_LOCK(t)
  \/ \E f \in m.faults : Accessor(t, f)
  \/ \E func \in BOOLEAN, f \in m.faults : oidnSetDeviceErrorFunction(t, func, f)
  \/ \E f \in m.faults : oidnCommitDevice(t, f)
  \/ \E f \in m.faults : SyncCall(t, f)
  \/ \E f \in m.faults : AsyncBufferCall(t, f)
  \/ \E f \in m.faults : NewChild(t, f)
  \/ \E f \in m.faults : oidnSetFilterImage(t, f)
  \/ \E f \in m.faults : oidnSetSharedFilterImage(t, f)
  \/ \E f \in m.faults : oidnRemoveFilterImage(t, f)
  \/ \E func \in BOOLEAN, f \in m.faults :
       oidnSetFilterProgressMonitorFunction(t, func, f)
  \/ \E continue \in BOOLEAN, f \in m.faults : oidnExecuteFilter(t, continue, f)
  \/ \E f \in m.faults : oidnExecuteFilterAsync(t, f)
  \/ \E f \in m.faults : releaseWait(t, f)
  \/ releaseDestroy(t)
  \/ releaseDestroyUndefined(t)
  \/ \E f \in m.faults : deviceWait(t, f)
  \/ deviceDestroy(t)
  \/ OIDN_CATCH(t)
  \/ Return(t)

\* Every thread that is inside an entry point is scheduled, and every engine
\* completes the work of its queue.
Fairness ==
  /\ \A t \in Threads : WF_vars(Continue(Concurrent, t))
  /\ \A d \in Devices : WF_vars(EngineCompletes(d))

NextLive ==
  \/ Step(Concurrent)
  \/ \E t \in Threads : releaseDestroyUndefined(t)
SpecLive == Init /\ [][NextLive]_vars /\ Fairness

\* The device constructors over native streams, for builds with the CUDA and
\* HIP devices.
NewStreamDevices(m) ==
  \/ \E t \in m.threads :
       /\ MayCall(t) /\ calls[t] < m.budget[t]
       /\ \E numStreams \in StreamCounts, f \in m.faults :
            oidnNewCUDADevice(t, numStreams, f)
  \/ \E t \in m.threads :
       /\ MayCall(t) /\ calls[t] < m.budget[t]
       /\ \E numStreams \in StreamCounts, f \in m.faults :
            oidnNewHIPDevice(t, numStreams, f)

NextApi == Step(Sequential) \/ NewStreamDevices(Sequential)
SpecApi == Init /\ [][NextApi]_vars

\* One thread making a longer sequence of calls.
Session ==
  [Concurrent EXCEPT !.threads = {1},
                     !.budget = [t \in Threads |-> MaxSessionCalls]]

NextSession == Step(Session)
SpecSession == Init /\ [][NextSession]_vars

\* The asynchronous entry points and oidnSyncDevice, called with handles the
\* application holds: one thread making a sequence of calls while a second
\* thread makes one, and the engines completing the work of their queues.
AsyncCalls ==
  {"oidnWriteBufferAsync", "oidnReadBufferAsync", "oidnExecuteFilterAsync",
   "oidnSyncDevice"}

Async ==
  [Concurrent EXCEPT
     !.calls = AsyncCalls, !.faults = {NoExc},
     !.budget = [t \in Threads |->
                   IF t = 1 THEN MaxAsyncCalls ELSE MaxWorkerCalls]]

StepAsync(m) ==
  \/ \E t \in m.threads :
       /\ MayCall(t) /\ calls[t] < m.budget[t]
       /\ \E ep \in LockedCalls \cap m.calls :
            \E h \in Passable(HandleKind(ep)) \ {Null} :
              EnterCall(t, ep, h, Null, NoArgs, "")
  \/ \E t \in m.threads : OIDN_LOCK(t)
  \/ \E t \in m.threads, f \in m.faults : SyncCall(t, f)
  \/ \E t \in m.threads, f \in m.faults : AsyncBufferCall(t, f)
  \/ \E t \in m.threads, f \in m.faults : oidnExecuteFilterAsync(t, f)
  \/ \E d \in Devices : EngineCompletes(d)
  \/ \E t \in m.threads : Return(t)

NextAsync == StepAsync(Async)
SpecAsync == Init /\ [][NextAsync]_vars

\* Builds with the SYCL device: one thread, on devices that were created by
\* oidnNewDevice or by oidnNewSYCLDevice, executing filters with
\* oidnExecuteSYCLFilterAsync.
InitSycl ==
  /\ \E s \in SetUps, sycl \in BOOLEAN :
       /\ dev = [d \in Devices |->
                   IF s.dev[d].st = "live"
                   THEN [s.dev[d] EXCEPT !.sycl = sycl] ELSE s.dev[d]]
       /\ obj = s.obj
  /\ err = [c \in Channels |-> NoError]
  /\ mutex = [d \in Devices |-> Null]
  /\ th = [t \in Threads |-> Idle]
  /\ calls = [t \in Threads |-> 0]
  /\ lastFail = [c \in Channels |-> NoExc]
  /\ uaf = {}
  /\ host = Unset
  /\ lab = NoLab

SyclFaults == {NoExc, StdException, BadAlloc}

NextSycl ==
  \/ /\ MayCall(1) /\ calls[1] < MaxSyclCalls
     /\ \E numQueues \in QueueCounts, f \in SyclFaults :
          oidnNewSYCLDevice(1, numQueues, f)
  \/ /\ MayCall(1) /\ calls[1] < MaxSyclCalls
     /\ \E h \in Passable("filter"), numDepEvents \in DepEventCounts,
           xarg \in DoneEventArgs :
          EnterSYCLExecute(1, h, numDepEvents, xarg)
  \/ OIDN_LOCK(1)
  \/ \E doneEvents \in DoneEventLists, f \in SyclFaults :
       oidnExecuteSYCLFilterAsync(1, doneEvents, f)
  \/ \E d \in Devices : EngineCompletes(d)
  \/ OIDN_CATCH(1)
  \/ Return(1)

SpecSycl == InitSycl /\ [][NextSycl]_vars

(***************************************************************************)
(* Images constructed directly (src/core/image.cpp): two image objects     *)
(* over two buffers or over raw pointers, Image::overlaps and              *)
(* Image::updatePtr after a buffer has been reallocated.                   *)
(***************************************************************************)
apiVars == <<dev, obj, err, mutex, th, calls, lastFail, uaf, host>>

Images == {1, 2}
LabBuffers == {1, 2}
NullPtr == 0

\* Buffer::getData and Buffer::getByteSize of the two buffers, and of the
\* first buffer after it has been reallocated (smaller, elsewhere).
BufferData(b) == 64 * b
Reallocated == [data |-> 256, byteSize |-> BufferBytes \div 2]

\* Raw pointers the application passes: null, and two addresses 4 bytes
\* apart.
Pointers == {NullPtr, 512, 516}

\* Image::Image(): an undefined 0 x 0 descriptor, no buffer, a null pointer.
DefaultImage ==
  [ImageDesc("Undefined", 0, 0, 0, 0) EXCEPT !.exc = NoExc]
    @@ [buffer |-> Null, byteOffset |-> 0, ptr |-> NullPtr]

\* Pointer arithmetic on char*, on addresses as wide as size_t.
PtrAdd(ptr, n) == (ptr + n) % SizeMod

\* Image::Image(const Ref<Buffer>&, Format, ...): Memory(buffer, byteOffset),
\* the descriptor, the range check, ptr = buffer->getData() + byteOffset.
NewBufferImage(bufs, b, a) ==
  LET desc == BufferImage(bufs[b].byteSize, a.format, a.width, a.height,
                          a.byteOffset, a.pixelByteStride, a.rowByteStride)
  IN  desc @@ [buffer |-> b, byteOffset |-> a.byteOffset,
               ptr |-> PtrAdd(bufs[b].data, a.byteOffset)]

\* Image::Image(void*, Format, ...): no buffer, ptr = (char*)ptr + byteOffset.
NewPointerImage(p, a) ==
  LET desc == PointerImage(p = NullPtr, a.format, a.width, a.height,
                           a.byteOffset, a.pixelByteStride, a.rowByteStride)
  IN  desc @@ [buffer |-> Null, byteOffset |-> a.byteOffset,
               ptr |-> PtrAdd(p, a.byteOffset)]

\* Image::begin and Image::end: the byte interval [ptr, ptr + byte size).
begin(image) == image.ptr
end(image) == PtrAdd(image.ptr, getByteSize(image))

\* An overlap test on closed intervals.
overlapsClosed(image, other) ==
  IF image.ptr = NullPtr \/ other.ptr = NullPtr THEN FALSE
  ELSE IF image.buffer # other.buffer THEN FALSE
  ELSE begin(image) <= end(other) /\ begin(other) <= end(image)

\* An overlap test that refuses images without a buffer.
overlapsBufferOnly(image, other) ==
  IF image.ptr = NullPtr \/ other.ptr = NullPtr THEN FALSE
  ELSE IF image.buffer = Null \/ image.buffer # other.buffer THEN FALSE
  ELSE begin(image) < end(other) /\ begin(other) < end(image)

\* Image::overlaps.
overlaps(image, other) ==
  IF image.ptr = NullPtr \/ other.ptr = NullPtr THEN FALSE
  ELSE IF image.buffer # other.buffer THEN FALSE
  ELSE begin(image) < end(other) /\ begin(other) < end(image)

RangeError == Throw("std::range_error", "None", "buffer region out of range")

\* Image::updatePtr: the image with its pointer refreshed, or the
\* std::range_error thrown (exc) with the image unchanged.
updatePtr(bufs, image) ==
  IF image.buffer = Null THEN [image |-> image, exc |-> NoExc]
  ELSE IF (image.byteOffset + getByteSize(image)) % SizeMod
            > bufs[image.buffer].byteSize
  THEN [image |-> image, exc |-> RangeError]
  ELSE [image |-> [image EXCEPT
                     !.ptr = PtrAdd(bufs[image.buffer].data, image.byteOffset)],
        exc |-> NoExc]

\* The geometries the application passes: the default strides, explicit
\* strides that are too small, exact and larger, a pixel stride of half the
\* range of size_t, and an image of no pixels.
HalfRange == SizeMod \div 2
LabGeometries ==
  {ImageArgs("Float", 2, 2, 0, 0, 0),
   ImageArgs("Float", 1, 2, BufferBytes \div 2, 0, 0),
   ImageArgs("Float", 1, 1, 0, 0, 0),
   ImageArgs("Float", 1, 1, 4, 0, 0),
   ImageArgs("Float", 0, 0, 4, 0, 0),
   ImageArgs("Float", 1, 1, 0, 8, 16),
   ImageArgs("Float", 1, 1, 0, 2, 0),
   ImageArgs("Float", 2, 1, 0, 0, 4),
   ImageArgs("Float3", 1024, 1024, 0, 8, 0),
   ImageArgs("Float2", 1024, 1024, 0, 8, 0),
   ImageArgs("Float", 2, 1, 0, HalfRange, 0),
   ImageArgs("Float", 2, 2, SizeMod - BufferBytes, 0, 0),
   ImageArgs("Float", maxDim + 1, 1, 0, 0, 0),
   ImageArgs("Float4", 4096, 4096, 0, 0, 0)}

\* The images another image is compared with.
PartnerGeometries ==
  {ImageArgs("Float", 2, 2, 0, 0, 0), ImageArgs("Float", 1, 1, 4, 0, 0)}

\* What an image is constructed over: a buffer or a raw pointer.
OverBuffer(b) == [kind |-> "buffer", buf |-> b, ptr |-> NullPtr]
OverPointer(p) == [kind |-> "pointer", buf |-> Null, ptr |-> p]
Targets ==
  {OverBuffer(b) : b \in LabBuffers} \cup {OverPointer(p) : p \in Pointers}

\* The constructor arguments of the two images.
ImageInputs ==
  [Images ->
     [args : LabGeometries \cup PartnerGeometries, over : Targets]]
LabInputs ==
  {in \in ImageInputs :
     /\ in[2].args \in PartnerGeometries
     /\ in[2].over.ptr # NullPtr \/ in[2].over.kind = "buffer"}

\* What the last operation was, on which image, what it threw and what it
\* returned.
Last(op, i, exc, res) == [op |-> op, i |-> i, exc |-> exc, res |-> res]

InitImage ==
  /\ dev = [d \in Devices |-> NoDevice]
  /\ obj = [o \in Objects |-> NoObject]
  /\ err = [c \in Channels |-> NoError]
  /\ mutex = [d \in Devices |-> Null]
  /\ th = [t \in Threads |-> Idle]
  /\ calls = [t \in Threads |-> 0]
  /\ lastFail = [c \in Channels |-> NoExc]
  /\ uaf = {}
  /\ host = Unset
  /\ \E in \in LabInputs :
       lab = [in |-> in,
              bufs |-> [b \in LabBuffers |->
                          [data |-> BufferData(b), byteSize |-> BufferBytes]],
              im |-> [i \in Images |-> DefaultImage],
              last |-> Last("none", 1, NoExc, FALSE)]

\* new Image(buffer, ...): image i is replaced when the construction
\* succeeds.
ConstructBufferImage(i) ==
  /\ lab.in[i].over.kind = "buffer"
  /\ LET image == NewBufferImage(lab.bufs, lab.in[i].over.buf, lab.in[i].args)
     IN  lab' = [lab EXCEPT
                   !.im[i] = IF image.exc = NoExc THEN image ELSE @,
                   !.last = Last("new", i, image.exc, FALSE)]
  /\ UNCHANGED apiVars

\* new Image(ptr, ...).
ConstructPointerImage(i) ==
  /\ lab.in[i].over.kind = "pointer"
  /\ LET image == NewPointerImage(lab.in[i].over.ptr, lab.in[i].args)
     IN  lab' = [lab EXCEPT
                   !.im[i] = IF image.exc = NoExc THEN image ELSE @,
                   !.last = Last("new", i, image.exc, FALSE)]
  /\ UNCHANGED apiVars

\* images[1].overlaps(images[2]).
CallOverlaps ==
  /\ lab' = [lab EXCEPT
               !.last = Last("overlaps", 1, NoExc,
                             overlaps(lab.im[1], lab.im[2]))]
  /\ UNCHANGED apiVars

\* images[2].overlaps(images[1]).
CallOverlapsSwapped ==
  /\ lab' = [lab EXCEPT
               !.last = Last("overlapsSwapped", 2, NoExc,
                             overlaps(lab.im[2], lab.im[1]))]
  /\ UNCHANGED apiVars

\* The first buffer is reallocated; images over it keep their pointers.
Reallocate ==
  /\ lab.bufs[1] # Reallocated
  /\ lab' = [lab EXCEPT !.bufs[1] = Reallocated,
                        !.last = Last("realloc", 1, NoExc, FALSE)]
  /\ UNCHANGED apiVars

\* images[i].updatePtr().
CallUpdatePtr(i) ==
  /\ LET r == updatePtr(lab.bufs, lab.im[i])
     IN  lab' = [lab EXCEPT
                   !.im[i] = r.image,
                   !.last = Last("updatePtr", i, r.exc, FALSE)]
  /\ UNCHANGED apiVars

NextImage ==
  \/ \E i \in Images : ConstructBufferImage(i)
  \/ \E i \in Images : ConstructPointerImage(i)
  \/ CallOverlaps
  \/ CallOverlapsSwapped
  \/ Reallocate
  \/ \E i \in Images : CallUpdatePtr(i)

SpecImage == InitImage /\ [][NextImage]_vars

(***************************************************************************)
(* Properties.                                                             *)
(***************************************************************************)
\* C1 (commit gate): children exist only on committed devices; a
\* child-creation entry point called on a device that is not committed
\* returns a null handle and makes one setError on that device, with
\* InvalidOperation unless taking the lock already failed; on a committed
\* device oidnNewBuffer and oidnNewFilter, unless the lock or the engine
\* fails, return a live child of the device and set no error.
CommitGate ==
  /\ \A o \in Objects : obj[o].st # "none" => dev[obj[o].dev].committed
  /\ \A t \in Threads :
       LET c == th[t]
       IN  (c.pc = "ret" /\ c.call \in NewChildCalls /\ c.h # Null) =>
             IF ~dev[c.h].committed
             THEN /\ c.ret = "null"
                  /\ c.newh = Null
                  /\ c.nset = 1
                  /\ c.chan = c.h
                  /\ c.exc # SystemError => c.code = "InvalidOperation"
             ELSE (c.call \in {"oidnNewBuffer", "oidnNewFilter"}
                     /\ c.exc \notin Faults \cup {SystemError}) =>
                    /\ c.ret = "handle"
                    /\ c.newh \in Objects
                    /\ obj[c.newh].st = "live"
                    /\ obj[c.newh].dev = c.h
                    /\ c.nset = 0

\* An external-memory buffer was asked of a device that is not committed.
CommitGateRefuses ==
  \E t \in Threads :
    /\ th[t].pc = "ret"
    /\ th[t].call = "oidnNewSharedBufferFromWin32Handle"
    /\ th[t].h # Null
    /\ ~dev[th[t].h].committed
    /\ th[t].ret = "null"
    /\ th[t].code = "InvalidOperation"

\* The threads inside a release of the object that saw the count reach zero.
Releasing(kind, h) ==
  {t \in Threads :
     /\ th[t].call \in ReleaseCalls
     /\ HandleKind(th[t].call) = kind
     /\ th[t].h = h
     /\ th[t].pc \in {"lock", "wait", "destroy", "devwait", "devdestroy"}}

\* The children that hold a reference to device d.
ChildrenOf(d) ==
  {o \in Objects : obj[o].st \in {"live", "leaked"} /\ obj[o].dev = d}

\* The filters whose slot holds an image over buffer o.
ImagesOver(o) ==
  {fl \in Objects :
     obj[fl].st \in {"live", "leaked"} /\ BoundBuffer(obj, fl) = o}

DrainBeforeTeardown ==
  /\ \A t \in Threads :
       /\ th[t].pc \in {"wait", "destroy"} => mutex[Owner(t)] = t
       /\ th[t].pc \in {"devwait", "devdestroy"} => mutex[th[t].h] # t
       /\ th[t].pc = "destroy" => dev[Owner(t)].pending = 0
       /\ th[t].pc = "devdestroy" => dev[th[t].h].pending = 0
  /\ \A d \in Devices : dev[d].st = "dead" => dev[d].pending = 0

\* The last release of a buffer or filter holds the mutex and waits while
\* async work is pending on the device.
ReleaseWaitsForPendingWork ==
  \E t \in Threads :
    /\ th[t].pc = "wait"
    /\ mutex[Owner(t)] = t
    /\ dev[Owner(t)].pending > 0

DifferentDevices == "the specified objects are bound to different devices"

\* oidnSetFilterImage has returned from a call with two non-null handles in
\* which the lock was taken.
SetFilterImageReturned(t) ==
  /\ th[t].pc = "ret"
  /\ th[t].call = "oidnSetFilterImage"
  /\ th[t].h # Null
  /\ th[t].h2 # Null
  /\ th[t].exc # SystemError

ErrorSticky ==
  \A t \in Threads :
    LET c == th[t]
    IN  /\ c.nset <= 1
        /\ (c.pc = "ret" /\ c.nset = 1 /\ c.h # Null) =>
             LET d == getDevice(HandleKind(c.call), c.h)
             IN  /\ c.chan = d
                 /\ err[d] = [code |-> c.code, msg |-> c.msg]
                 /\ lastFail[d] = c.exc
                 /\ dev[d].errFunc <=> c.ecb # "none"
        /\ (c.pc = "ret" /\ c.call = "oidnGetDeviceError" /\ c.nset = 0) =>
             /\ c.ret = IF c.seen = NoExc THEN "None" ELSE CatchCode(c.seen)
             /\ c.seen = NoExc => c.retmsg = ""
             /\ err[c.h] = NoError
             /\ lastFail[c.h] = NoExc

\* oidnGetDeviceError has returned the InvalidOperation of an earlier call
\* on the device and emptied the slot.
ErrorReadAndConsumed ==
  \E t \in Threads :
    /\ th[t].pc = "ret"
    /\ th[t].call = "oidnGetDeviceError"
    /\ th[t].h # Null
    /\ th[t].seen = Exception("InvalidOperation", "device not committed")
    /\ th[t].ret = "InvalidOperation"
    /\ err[th[t].h] = NoError

\* The value the C API documents for a failed call, by result type.
FailureValue(ep) ==
  CASE ResultType(ep) \in {"handle", "pointer"} -> "null"
    [] ResultType(ep) = "bool" -> "false"
    [] ResultType(ep) \in {"int", "size_t", "float"} -> "0"
    [] ResultType(ep) = "OIDNError" -> "Unknown"
    [] OTHER -> "void"

\* The device that owns the handle passed to an entry point, or no device.
OwningDevice(c) ==
  IF c.h = Null THEN Null
  ELSE IF HandleKind(c.call) = "device" THEN c.h
  ELSE obj[c.h].dev

FailureKindTranslated ==
  \A t \in Threads :
    LET c == th[t]
    IN  (c.pc = "ret" /\ c.nset = 1) =>
          CASE c.exc.type = "Exception" ->
                 c.code = c.exc.code /\ c.msg = c.exc.msg
            [] c.exc.type \in {"std::bad_alloc", "dnnl::error/out_of_memory"} ->
                 c.code = "OutOfMemory"
            [] c.exc.type
                 \in {"dnnl::error", "std::exception", "std::system_error"} ->
                 c.code = "Unknown" /\ c.msg = c.exc.msg
            [] OTHER -> c.code = "Unknown"

\* A backend out-of-memory signal was reported as OutOfMemory.
BackendOutOfMemoryReported ==
  \E t \in Threads :
    /\ th[t].pc = "ret"
    /\ th[t].exc = DnnlOutOfMemory
    /\ th[t].code = "OutOfMemory"
    /\ err[th[t].chan].code = "OutOfMemory"

\* A call of an entry point other than oidnGetDeviceError that passes a
\* null handle.
NullHandleCall(c) ==
  /\ c.call \in HandleCalls \ {"oidnGetDeviceError"}
  /\ c.h = Null \/ (c.call = "oidnSetFilterImage" /\ c.h2 = Null)

\* C8 (null-handle check), as the code has it: every entry point that takes
\* a handle, except oidnGetDeviceError, throws InvalidArgument "invalid
\* handle" for a null handle before it locks or touches anything, changes no
\* object, makes its setError and returns its failure value;
\* oidnGetDeviceError makes no handle check: with a null handle it throws
\* nothing and reads and empties the error slot of no device.
NullHandleChecked ==
  [][\A t \in Threads :
       /\ (th[t].pc = "idle" /\ th'[t].pc # "idle" /\ NullHandleCall(th'[t])) =>
            /\ th'[t].pc = "catch"
            /\ th'[t].exc = InvalidHandle
            /\ UNCHANGED <<dev, obj, err, mutex>>
       /\ (th[t].pc = "catch" /\ th'[t].pc # "catch" /\ NullHandleCall(th[t])) =>
            /\ th'[t].pc = "ret"
            /\ th'[t].ret = FailureValue(th[t].call)
            /\ th'[t].nset = 1
            /\ th'[t].code = "InvalidArgument"
            /\ th'[t].msg = "invalid handle"
            /\ th'[t].chan = OwningDevice(th[t])
            /\ UNCHANGED <<dev, obj, mutex>>
       /\ (/\ th[t].pc = "idle"
           /\ th'[t].pc = "ret"
           /\ th'[t].call = "oidnGetDeviceError"
           /\ th'[t].h = Null) =>
            /\ th'[t].exc = NoExc
            /\ th'[t].ret = err[Null].code
            /\ err' = [err EXCEPT ![Null] = NoError]
     ]_vars

\* oidnGetDeviceError, called with a null handle after a null-handle
\* failure, returned that failure's InvalidArgument instead of raising.
NullHandleErrorRead ==
  \E t \in Threads :
    /\ th[t].pc = "ret"
    /\ th[t].call = "oidnGetDeviceError"
    /\ th[t].h = Null
    /\ th[t].seen = InvalidHandle
    /\ th[t].ret = "InvalidArgument"
    /\ th[t].nset = 0

\* C8 as claimed: oidnGetDeviceError called with a null handle raises
\* InvalidArgument (one setError) like every other entry point.
GetDeviceErrorChecksHandle ==
  \A t \in Threads :
    (/\ th[t].pc = "ret"
     /\ th[t].call = "oidnGetDeviceError"
     /\ th[t].h = Null) => th[t].nset = 1 /\ th[t].code = "InvalidArgument"

\* The threads inside the locked part of an entry point on device d.
InLockedSection(d) ==
  {t \in Threads : th[t].pc \in {"body", "wait", "destroy"} /\ Owner(t) = d}

Tickets(q) == [i \in 1..Len(q) |-> q[i].ticket]
Ops(q) == [i \in 1..Len(q) |-> q[i].op]
Increasing(s) == \A i, j \in 1..Len(s) : i < j => s[i] < s[j]

\* The async work of device d, completed and pending, in the order in which
\* the engine completes it.
CompletionOrder(d) == dev[d].done \o dev[d].queue

\* The run write; execute; read over one buffer.
Pipeline == <<"write", "execute", "read">>

\* C11 (async ordering on one device): the async work of a device completes
\* in the order in which the entry points that enqueued it acquired the
\* device's mutex, which for the calls of one thread is the order of the
\* calls; oidnSyncDevice returns only when everything enqueued before it
\* took the mutex has completed; and when the completed work of a device is
\* writeAsync, executeAsync, readAsync over one buffer, the destination of
\* the read holds the filter's output computed from the written contents.
AsyncOrdered ==
  /\ \A d \in Devices :
       LET all == CompletionOrder(d)
       IN  /\ Increasing(Tickets(all))
           /\ dev[d].pending = Len(dev[d].queue)
           /\ \A i, j \in 1..Len(all) :
                (all[i].by = all[j].by /\ all[i].seq < all[j].seq) => i < j
           /\ (/\ Ops(dev[d].done) = Pipeline
               /\ \A i \in 1..3 : dev[d].done[i].buf = dev[d].done[1].buf)
                => host = Denoise(Written)
  /\ \A t \in Threads :
       (/\ th[t].pc = "ret"
        /\ th[t].call = "oidnSyncDevice"
        /\ th[t].exc = NoExc) =>
         \A i \in 1..Len(dev[th[t].h].queue) :
           dev[th[t].h].queue[i].ticket > th[t].ticket

\* One thread has called oidnWriteBufferAsync, oidnExecuteFilterAsync,
\* oidnReadBufferAsync and oidnSyncDevice; the sync has returned after the
\* three pieces of work, and the host holds the output computed from the
\* written contents.
AsyncPipelineSynced ==
  \E t \in Threads, d \in Devices :
    /\ th[t].pc = "ret"
    /\ th[t].call = "oidnSyncDevice"
    /\ th[t].h = d
    /\ calls[t] = 4
    /\ Ops(dev[d].done) = Pipeline
    /\ \A i \in 1..3 : dev[d].done[i].by = t /\ dev[d].done[i].seq = i
    /\ dev[d].queue = <<>>
    /\ host = Denoise(Written)

\* Work enqueued on one device by a later call of a thread has completed
\* while the work of an earlier call of the thread on another device is
\* still pending.
CrossDeviceOutOfOrder ==
  \E d1, d2 \in Devices :
    /\ d1 # d2
    /\ \E i \in 1..Len(dev[d1].queue), j \in 1..Len(dev[d2].done) :
         /\ dev[d1].queue[i].by = dev[d2].done[j].by
         /\ dev[d1].queue[i].seq < dev[d2].done[j].seq

\* The byte size of an image and the end of its interval as true integers.
TrueByteSize(image) == image.height * image.hByteStride
TrueEnd(image) == image.ptr + TrueByteSize(image)

\* A buffer-backed image whose pointer is the buffer's current data pointer
\* plus its offset and whose bytes lie inside the buffer.
InsideBuffer(image) ==
  /\ image.buffer # Null
  /\ image.ptr = lab.bufs[image.buffer].data + image.byteOffset
  /\ image.byteOffset + TrueByteSize(image) <= lab.bufs[image.buffer].byteSize

\* C12 (overlap detection on buffers): for two images that lie inside the
\* same buffer at offsets [a,b) and [c,d), Image::overlaps returns true
\* exactly when a < d and c < b; for images over different buffers it
\* returns false.
OverlapOnBuffers ==
  LET x == lab.im[1]
      y == lab.im[2]
  IN  lab.last.op = "overlaps" =>
        /\ (InsideBuffer(x) /\ InsideBuffer(y) /\ x.buffer = y.buffer) =>
             (lab.last.res <=>
                /\ x.byteOffset < y.byteOffset + TrueByteSize(y)
                /\ y.byteOffset < x.byteOffset + TrueByteSize(x))
        /\ (x.buffer # Null /\ y.buffer # Null /\ x.buffer # y.buffer) =>
             ~lab.last.res

\* Two images inside one buffer, at bytes [8,16) and [0,16), were found to
\* overlap.
OverlapInBufferFound ==
  /\ lab.last.op = "overlaps"
  /\ lab.last.res
  /\ InsideBuffer(lab.im[1]) /\ InsideBuffer(lab.im[2])
  /\ lab.im[1].buffer = lab.im[2].buffer
  /\ lab.im[1].byteOffset = BufferBytes \div 2
  /\ lab.im[2].byteOffset = 0

\* An image over a raw pointer whose interval does not wrap around the
\* address space.
RawPointerImage(image) ==
  /\ image.buffer = Null
  /\ TrueEnd(image) < SizeMod

\* C13 (raw-pointer images), as the code has it: two images over raw
\* pointers have the same (null) buffer, so Image::overlaps compares their
\* intervals: it returns true exactly when both pointers are non-null and
\* the intervals [ptr, ptr + byte size) intersect.
RawPointerOverlap ==
  LET x == lab.im[1]
      y == lab.im[2]
  IN  (lab.last.op = "overlaps" /\ RawPointerImage(x) /\ RawPointerImage(y)) =>
        (lab.last.res <=>
           /\ x.ptr # NullPtr /\ y.ptr # NullPtr
           /\ x.ptr < TrueEnd(y)
           /\ y.ptr < TrueEnd(x))

\* Two images over the raw pointers 512 and 516 were found to overlap.
RawPointerOverlapFound ==
  /\ lab.last.op = "overlaps"
  /\ lab.last.res
  /\ lab.in[1].over = OverPointer(512)
  /\ lab.in[2].over = OverPointer(516)
  /\ lab.im[1].buffer = Null /\ lab.im[1].ptr # NullPtr
  /\ lab.im[2].buffer = Null /\ lab.im[2].ptr # NullPtr

\* C13 as claimed: Image::overlaps returns false for any two images over
\* raw pointers.
RawPointerImagesNeverOverlap ==
  (/\ lab.last.op = "overlaps"
   /\ lab.im[1].buffer = Null
   /\ lab.im[2].buffer = Null) => ~lab.last.res

\* The image the last construction built (it succeeded).
Built(i) ==
  /\ lab.last.op = "new"
  /\ lab.last.i = i
  /\ lab.last.exc = NoExc

\* A construction was refused with InvalidArgument and the message.
Refused(i, msg) ==
  /\ lab.last.op = "new"
  /\ lab.last.i = i
  /\ lab.last.exc = Exception("InvalidArgument", msg)

\* C14 (stride defaulting and validation), as claimed: a descriptor is
\* constructed with wByteStride the pixel size or the explicit pixel stride
\* and hByteStride width * wByteStride or the explicit row stride; explicit
\* strides smaller than these are refused; so every constructed descriptor
\* has wByteStride >= pixel size and hByteStride >= width * wByteStride as
\* true integers.
StridesCoverRows ==
  \A i \in Images :
    LET a == lab.in[i].args
        image == lab.im[i]
        pixelByteSize == getFormatSize(a.format)
    IN  /\ Built(i) =>
             /\ image.wByteStride =
                  (IF a.pixelByteStride = 0 THEN pixelByteSize
                   ELSE a.pixelByteStride)
             /\ image.hByteStride =
                  (IF a.rowByteStride = 0 THEN a.width * image.wByteStride
                   ELSE a.rowByteStride)
             /\ image.wByteStride >= pixelByteSize
             /\ image.hByteStride >= a.width * image.wByteStride
        /\ (lab.last.op = "new" /\ lab.last.i = i
              /\ a.width <= maxDim /\ a.height <= maxDim
              /\ a.width * a.height * getC(a.format) <= IntMax
              /\ a.pixelByteStride # 0 /\ a.pixelByteStride < pixelByteSize) =>
             Refused(i, "pixel stride smaller than pixel size")

\* A descriptor of width 2 with a pixel stride of half the range of size_t
\* was constructed with a row stride of 0.
RowStrideWrapped ==
  \E i \in Images :
    /\ Built(i)
    /\ lab.in[i].args = ImageArgs("Float", 2, 1, 0, HalfRange, 0)
    /\ lab.im[i].wByteStride = HalfRange
    /\ lab.im[i].hByteStride = 0

\* The arguments of scenario S5 and the same with a format of 8 bytes a
\* pixel.
ScenarioS5 == ImageArgs("Float3", 1024, 1024, 0, 8, 0)
ScenarioS5Float2 == ImageArgs("Float2", 1024, 1024, 0, 8, 0)

\* C15 (scenario S5), as the code has it: constructing an image with format
\* Float3 (12 bytes a pixel), width 1024, height 1024, pixelByteStride 8 and
\* rowByteStride 0 throws InvalidArgument, pixel stride smaller than pixel
\* size, and builds nothing; with format Float2 (8 bytes a pixel), over a
\* non-null pointer, it succeeds with wByteStride = 8 and hByteStride = 8192.
ScenarioS5Refused ==
  \A i \in Images :
    /\ (lab.last.op = "new" /\ lab.last.i = i
          /\ lab.in[i].args = ScenarioS5) =>
         /\ Refused(i, "pixel stride smaller than pixel size")
         /\ lab.im[i] = DefaultImage
    /\ (lab.last.op = "new" /\ lab.last.i = i
          /\ lab.in[i].args = ScenarioS5Float2
          /\ lab.in[i].over.kind = "pointer"
          /\ lab.in[i].over.ptr # NullPtr) =>
         /\ Built(i)
         /\ lab.im[i].wByteStride = 8
         /\ lab.im[i].hByteStride = 8192

\* The construction of scenario S5 over a non-null pointer was refused.
ScenarioS5Thrown ==
  \E i \in Images :
    /\ lab.in[i].args = ScenarioS5
    /\ lab.in[i].over = OverPointer(512)
    /\ Refused(i, "pixel stride smaller than pixel size")

\* C15 as claimed: the construction of scenario S5 succeeds with
\* wByteStride = 8 and hByteStride = 8192.
ScenarioS5Succeeds ==
  \A i \in Images :
    (lab.last.op = "new" /\ lab.last.i = i
      /\ lab.in[i].args = ScenarioS5
      /\ lab.in[i].over.kind = "pointer"
      /\ lab.in[i].over.ptr # NullPtr) =>
      /\ Built(i)
      /\ lab.im[i].wByteStride = 8
      /\ lab.im[i].hByteStride = 8192

\* C16 (buffer-backed image bounds), as claimed: a buffer-backed image is
\* constructed, and updatePtr refreshes its pointer, only if byteOffset +
\* byte size <= the buffer's byte size as true integers, so the image then
\* lies inside its buffer; otherwise the construction throws
\* InvalidArgument and updatePtr throws.
ImagesInsideBuffers ==
  \A i \in Images :
    LET image == lab.im[i]
        inside == image.byteOffset + TrueByteSize(image)
                    <= lab.bufs[image.buffer].byteSize
    IN  /\ (Built(i) /\ image.buffer # Null) => inside
        /\ (lab.last.op = "updatePtr" /\ lab.last.i = i
              /\ image.buffer # Null) =>
             (lab.last.exc = NoExc <=> inside)

\* An image of 16 bytes was constructed over a buffer of 16 bytes at an
\* offset 16 bytes below the range of size_t: it starts before the buffer.
ImageOutsideBuffer ==
  \E i \in Images :
    /\ Built(i)
    /\ lab.im[i].buffer # Null
    /\ lab.im[i].byteOffset = SizeMod - BufferBytes
    /\ TrueByteSize(lab.im[i]) = BufferBytes
    /\ lab.im[i].ptr = lab.bufs[lab.im[i].buffer].data - BufferBytes

\* A set-image entry point has returned from a call with non-null handles
\* in which the lock was taken and the environment raised no failure.
SetImageReturned(t) ==
  /\ th[t].pc = "ret"
  /\ th[t].call \in SetImageCalls
  /\ th[t].h # Null
  /\ th[t].call = "oidnSetFilterImage" =>
       th[t].h2 # Null /\ obj[th[t].h2].dev = obj[th[t].h].dev
  /\ th[t].exc \notin Faults \cup {SystemError}

\* The size limits of an image, on the width and height the caller passes.
TooLarge(a) ==
  \/ a.width > maxDim
  \/ a.height > maxDim
  \/ a.width * a.height * getC(a.format) > IntMax

\* C17 (image size limits through the API), as claimed: for every width and
\* height passed to oidnSetFilterImage or oidnSetSharedFilterImage, a width
\* or height above maxDim or width * height * channels above the largest
\* int makes the call fail with InvalidArgument; and when the call
\* succeeds, the bound image's width and height are the values passed.
ImageLimitsThroughApi ==
  \A t \in Threads :
    LET c == th[t]
    IN  SetImageReturned(t) =>
          /\ TooLarge(c.args) => c.nset = 1 /\ c.code = "InvalidArgument"
          /\ c.nset = 0 =>
               /\ obj[c.h].img.width = c.args.width
               /\ obj[c.h].img.height = c.args.height

\* A width of 2^IntBits + 2, far above maxDim, was passed and the call
\* succeeded: the image bound to the filter is 2 pixels wide.
TruncatedWidthBound ==
  \E t \in Threads :
    /\ SetImageReturned(t)
    /\ th[t].args.width = IntMod + 2
    /\ th[t].args.width > maxDim
    /\ th[t].nset = 0
    /\ obj[th[t].h].img.kind # "none"
    /\ obj[th[t].h].img.width = 2

ExternalMemoryCalls ==
  {"oidnNewSharedBufferFromFD", "oidnNewSharedBufferFromWin32Handle"}

\* An external-memory entry point has returned from a call on a committed
\* device in which the lock was taken.
ExternalMemoryReturned(t) ==
  /\ th[t].pc = "ret"
  /\ th[t].call \in ExternalMemoryCalls
  /\ th[t].h # Null
  /\ dev[th[t].h].committed
  /\ th[t].exc # SystemError

\* The call failed with one setError(InvalidArgument, msg) on the device and
\* returned a null handle; no buffer was created.
RefusedWith(t, msg) ==
  /\ th[t].ret = "null"
  /\ th[t].newh = Null
  /\ th[t].nset = 1
  /\ th[t].chan = th[t].h
  /\ th[t].code = "InvalidArgument"
  /\ th[t].msg = msg

\* The memory type passed is one type, and the device advertises it.
Advertised(type) == \E x \in getExternalMemoryTypes : type = {x}

\* C18 (external memory type gate): on a committed device,
\* oidnNewSharedBufferFromFD and oidnNewSharedBufferFromWin32Handle called
\* with a memory type (one type, or none) that the device does not advertise
\* return a null handle and set InvalidArgument with the type message,
\* whatever the engine would have done: the engine is not asked, no buffer
\* is created.  With an advertised type the call is never refused for its
\* type.
ExternalTypeGate ==
  \A t \in Threads :
    LET type == ExternalMemoryTypeFlag(th[t].call, th[t].xarg)
    IN  ExternalMemoryReturned(t) =>
          /\ (Cardinality(type) <= 1 /\ ~Advertised(type)) =>
               RefusedWith(t, TypeNotSupported)
          /\ Advertised(type) => th[t].msg # TypeNotSupported

\* Both entry points refused a type the device does not advertise, each
\* with one InvalidArgument.
UnsupportedTypeRefused ==
  \E t \in Threads :
    /\ ExternalMemoryReturned(t)
    /\ th[t].xarg = "unsupported"
    /\ ExternalMemoryTypeFlag(th[t].call, th[t].xarg) \in
         {{"DMABuf"}, {"D3D11Texture"}}
    /\ RefusedWith(t, TypeNotSupported)

\* C19 (Win32 handle/name exclusivity): on a committed device with an
\* advertised handle type, oidnNewSharedBufferFromWin32Handle with exactly
\* one of handle and name non-null asks the engine, and returns the new
\* buffer unless the engine fails; with neither or both it returns a null
\* handle and sets InvalidArgument with the exclusivity message.
HandleNameExclusive ==
  \A t \in Threads :
    LET c == th[t]
        one == HandleGiven(c.xarg) # NameGiven(c.xarg)
    IN  (/\ ExternalMemoryReturned(t)
         /\ c.call = "oidnNewSharedBufferFromWin32Handle"
         /\ Advertised(ExternalMemoryTypeFlag(c.call, c.xarg))) =>
          /\ one =>
               \/ /\ c.exc = NoExc
                  /\ c.nset = 0
                  /\ c.ret = "handle"
                  /\ c.newh # Null
                  /\ obj[c.newh].st = "live"
                  /\ obj[c.newh].kind = "buffer"
               \/ c.exc \in Faults /\ c.newh = Null /\ c.ret = "null"
          /\ ~one => RefusedWith(t, HandleAndName)

\* A call with both the handle and the name was refused, and the same for a
\* call with neither.
BothOrNeitherRefused ==
  \E t \in Threads :
    /\ ExternalMemoryReturned(t)
    /\ th[t].call = "oidnNewSharedBufferFromWin32Handle"
    /\ th[t].xarg \in {"both", "neither"}
    /\ RefusedWith(t, HandleAndName)

\* A stream-device constructor has returned.
StreamDeviceReturned(t) ==
  th[t].pc = "ret" /\ th[t].call \in StreamDeviceCalls

\* C20 (CUDA/HIP stream count): oidnNewCUDADevice and oidnNewHIPDevice
\* return a new device with one reference when numStreams is 0 or 1 and the
\* constructor does not fail; for every other numStreams, negative ones
\* included, they return a null handle and make one setError
\* (InvalidArgument, "unsupported number of streams") on no device, and the
\* call creates no device.
StreamCountGate ==
  /\ [](\A t \in Threads :
          LET c == th[t]
          IN  StreamDeviceReturned(t) =>
                /\ (c.numStreams \in {0, 1} /\ c.exc = NoExc) =>
                     /\ c.ret = "handle"
                     /\ c.newh # Null
                     /\ dev[c.newh].st = "live"
                     /\ c.nset = 0
                /\ c.numStreams \notin {0, 1} =>
                     /\ c.ret = "null"
                     /\ c.newh = Null
                     /\ c.nset = 1
                     /\ c.chan = Null
                     /\ c.code = "InvalidArgument"
                     /\ c.msg = UnsupportedStreams)
  /\ [][\A t \in Threads :
          (/\ th[t].pc = "idle"
           /\ th'[t].call \in StreamDeviceCalls
           /\ th'[t].numStreams \notin {0, 1}) =>
            dev' = dev /\ th'[t].pc = "catch"]_vars

\* Both constructors refused a negative stream count and a count of two,
\* leaving no device behind.
StreamCountRefused ==
  \E t \in Threads :
    /\ StreamDeviceReturned(t)
    /\ th[t].numStreams \in {-1, 2}
    /\ th[t].msg = UnsupportedStreams
    /\ th[t].newh = Null
    /\ \A d \in Devices : dev[d].st = "none"

\* oidnExecuteSYCLFilterAsync has returned from a call in which the filter
\* was enqueued: nothing was thrown, or only the logic error that follows
\* the execution.
SyclFilterEnqueued(t) ==
  /\ th[t].pc = "ret"
  /\ th[t].call = "oidnExecuteSYCLFilterAsync"
  /\ th[t].h # Null
  /\ th[t].exc \in {NoExc, LogicError}

\* The call failed with one setError(Unknown, "missing barrier after filter
\* kernels") on the filter's device.
LogicErrorOnDevice(t) ==
  /\ th[t].exc = LogicError
  /\ th[t].nset = 1
  /\ th[t].chan = obj[th[t].h].dev
  /\ th[t].code = "Unknown"
  /\ th[t].msg = LogicError.msg

\* C21 (SYCL completion event), as the code has it: after
\* oidnExecuteSYCLFilterAsync has enqueued the filter, when the caller
\* passed a doneEvent: with no completion event the output is the empty
\* event, with exactly one it is that event, with more than one the call
\* leaves the output untouched and reports a logic error on the filter's
\* device as Unknown.  When the caller passed no doneEvent nothing is
\* output and no error is raised, whatever the number of completion events.
SyclCompletionEventWhenRequested ==
  \A t \in Threads :
    LET c == th[t]
        n == Len(c.doneEvents)
    IN  SyclFilterEnqueued(t) =>
          /\ (c.xarg = "event" /\ n = 0) =>
               c.doneEvent = "empty" /\ c.nset = 0
          /\ (c.xarg = "event" /\ n = 1) =>
               c.doneEvent = c.doneEvents[1] /\ c.nset = 0
          /\ (c.xarg = "event" /\ n > 1) =>
               c.doneEvent = "unset" /\ LogicErrorOnDevice(t)
          /\ c.xarg = "nullptr" =>
               c.doneEvent = "unset" /\ c.nset = 0 /\ c.exc = NoExc

\* Two completion events were reported to a caller that asked for the
\* completion event: the logic error was recorded on the filter's device.
LogicErrorReported ==
  \E t \in Threads :
    /\ SyclFilterEnqueued(t)
    /\ th[t].xarg = "event"
    /\ Len(th[t].doneEvents) = 2
    /\ LogicErrorOnDevice(t)
    /\ err[obj[th[t].h].dev] = [code |-> "Unknown", msg |-> LogicError.msg]

\* C21 as claimed: whenever the engine reports more than one completion
\* event, the wrapper raises the logic error.
SyclCompletionEvent ==
  \A t \in Threads :
    (SyclFilterEnqueued(t) /\ Len(th[t].doneEvents) > 1) =>
      LogicErrorOnDevice(t)

\* The first byte after the last byte the two images could share, and the
\* first byte they could share: the intervals [ptr, ptr + byte size) have a
\* byte in common exactly when the larger begin is below the smaller end.
CommonByte(x, y) ==
  LET lo == IF x.ptr > y.ptr THEN x.ptr ELSE y.ptr
      hi == IF TrueEnd(x) < TrueEnd(y) THEN TrueEnd(x) ELSE TrueEnd(y)
  IN  lo < hi

\* C22 (overlap as interval intersection), as claimed: Image::overlaps
\* returns false when either image has no backing pointer or the backing
\* buffers differ, and otherwise returns true exactly when the half-open
\* byte intervals of the two images have a byte in common; the result is
\* the same for images[1].overlaps(images[2]) and
\* images[2].overlaps(images[1]).
OverlapIsIntersection ==
  LET x == lab.im[1]
      y == lab.im[2]
  IN  (/\ lab.last.op \in {"overlaps", "overlapsSwapped"}
       /\ TrueEnd(x) < SizeMod /\ TrueEnd(y) < SizeMod) =>
        (lab.last.res <=>
           /\ x.ptr # NullPtr /\ y.ptr # NullPtr
           /\ x.buffer = y.buffer
           /\ CommonByte(x, y))

\* An image of no pixels, 4 bytes into a buffer, was reported to overlap an
\* image occupying the whole buffer, with which it shares no byte.
EmptyImageOverlaps ==
  /\ lab.last.op = "overlaps"
  /\ lab.last.res
  /\ TrueByteSize(lab.im[1]) = 0
  /\ lab.im[1].buffer # Null
  /\ lab.im[1].buffer = lab.im[2].buffer
  /\ lab.im[1].ptr = lab.bufs[lab.im[1].buffer].data + 4
  /\ lab.im[2].ptr = lab.bufs[lab.im[2].buffer].data
  /\ TrueByteSize(lab.im[2]) = BufferBytes
  /\ ~CommonByte(lab.im[1], lab.im[2])

\* A buffer or filter bound to device d that has not been torn down: it is
\* alive, or its last reference is gone and its release has not destroyed
\* it yet.
BoundAndNotTornDown(o, d) ==
  /\ obj[o].dev = d
  /\ obj[o].st \in {"live", "leaked"}

\* C23 (children keep the device alive), as claimed: in every sequence of
\* create, retain and release calls the device is not torn down while a
\* buffer or filter bound to it is alive or inside its own release, and the
\* device's mutex is never locked or unlocked after the device was torn
\* down.
ChildrenKeepDeviceAlive ==
  /\ \A d \in Devices, o \in Objects :
       dev[d].st = "dead" => ~BoundAndNotTornDown(o, d)
  /\ "mutex" \notin uaf

\* The application released its device handle, then the last buffer or
\* filter of the device: the child's destroy, which runs under the device's
\* mutex, dropped the last reference of the device and tore it down, and the
\* lock_guard then unlocked the mutex of the torn-down device.
MutexUnlockedAfterTeardown ==
  \E t \in Threads :
    /\ th[t].pc = "ret"
    /\ th[t].call \in {"oidnReleaseBuffer", "oidnReleaseFilter"}
    /\ th[t].h # Null
    /\ obj[th[t].h].st = "dead"
    /\ dev[obj[th[t].h].dev].st = "dead"
    /\ dev[obj[th[t].h].dev].app = 0
    /\ dev[obj[th[t].h].dev].torn = 1
    /\ "mutex" \in uaf

\* The device mutexes thread t holds.
HeldBy(t) == {d \in Devices : mutex[d] = t}

\* Thread t holds no mutex outside the locked section of the entry point it
\* is inside, and exactly its device's mutex inside it.
LockScoped(t) ==
  /\ Cardinality(HeldBy(t)) <= 1
  /\ th[t].pc \in {"body", "wait", "destroy"} => HeldBy(t) = {Owner(t)}
  /\ th[t].pc \notin {"body", "wait", "destroy"} => HeldBy(t) = {}

LockDisciplineWhileDeviceAlive ==
  /\ [](\A t \in Threads : th[t].pc # "undefined" => LockScoped(t))
  /\ \A t \in Threads :
       (th[t].pc \notin {"idle", "ret"})
         ~> \/ th[t].pc \in {"ret", "undefined"}
            \/ th[t].pc = "lock" /\ dev[Owner(t)].st = "dead"

\* A call failed inside its body on a device, and a call started later by
\* the other thread has acquired the same device's mutex.
LockedAfterFailedCall ==
  \E t, u \in Threads :
    /\ t # u
    /\ th[t].pc = "ret"
    /\ th[t].nset = 1
    /\ th[t].ticket >= 1
    /\ th[u].pc = "body"
    /\ Owner(u) = Owner(t)
    /\ th[u].ticket > th[t].ticket
    /\ HeldBy(u) = {Owner(u)}

====
